---------------------------- MODULE Spec2Model ----------------------------
(***************************************************************************)
(* A model of the abstract-corpus tools of the repository:                  *)
(*   build_topic_model.py  get_words_and_documents, build_matrix,           *)
(*                         time_logger                                      *)
(*   AbstractsFromIDs.py   BuildSubset                                      *)
(*   importAbstracts.py    GetCmdLineParameters, ProcessNextAbstract        *)
(*   prepare_pubmed_subset.py  GetCmdLineParameters, build_subset           *)
(* and of the start of build_topic_model.py and AbstractsFromIDs.py.        *)
(* Strings are sequences of one-character strings, so that strip, split,    *)
(* lower, slicing, the regular expressions and sorted() are computed as     *)
(* the Python code computes them.                                           *)
(***************************************************************************)
EXTENDS Integers, Sequences, FiniteSets, TLC

(***************************************************************************)
(* Bounds of the model.                                                     *)
(***************************************************************************)
\* files in a traversal corpus
MaxFiles == 2
\* lines in a traversal corpus, summed over its files
MaxTotalLines == 3
\* lines of the single file of a vocabulary corpus
MaxVocabLines == 2
\* largest value of iMaxAbstracts tried
MaxCap == 2
\* largest value of iMinWordLength tried
MaxMinWordLength == 3
\* identifiers in the list BuildSubset is given
MaxRows == 2
\* lines of the importer's input file
MaxInputLines == 6
\* runs of the importer on one index file
MaxRuns == 2
\* files in the shard tree prepare_pubmed_subset.py walks
MaxTreeFiles == 4
\* largest numerator and denominator tried
MaxDenominator == 3

(***************************************************************************)
(* Characters and strings.                                                  *)
(***************************************************************************)
\* Unicode code point of a character (the order sorted() compares by)
Ord(c) ==
  CASE c = "\t" -> 9
    [] c = "\n" -> 10
    [] c = " " -> 32
    [] c = "!" -> 33
    [] c = "%" -> 37
    [] c = "+" -> 43
    [] c = "," -> 44
    [] c = "-" -> 45
    [] c = "." -> 46
    [] c = "0" -> 48
    [] c = "1" -> 49
    [] c = "2" -> 50
    [] c = "3" -> 51
    [] c = "4" -> 52
    [] c = "5" -> 53
    [] c = "6" -> 54
    [] c = "7" -> 55
    [] c = "8" -> 56
    [] c = "9" -> 57
    [] c = "?" -> 63
    [] c = "A" -> 65
    [] c = "B" -> 66
    [] c = "D" -> 68
    [] c = "I" -> 73
    [] c = "M" -> 77
    [] c = "P" -> 80
    [] c = "T" -> 84
    [] c = "_" -> 95
    [] c = "a" -> 97
    [] c = "b" -> 98
    [] c = "d" -> 100
    [] c = "e" -> 101
    [] c = "h" -> 104
    [] c = "i" -> 105
    [] c = "m" -> 109
    [] c = "p" -> 112
    [] c = "t" -> 116
    [] c = "z" -> 122

Digits == {"0", "1", "2", "3", "4", "5", "6", "7", "8", "9"}

\* str.isspace for the characters of the model
IsSpace(c) == c \in {" ", "\n", "\t"}

\* s[i:j] of Python for 0 <= i, j <= len(s): the characters with index i..j-1
Slice(s, i, j) == IF j <= i THEN << >> ELSE SubSeq(s, i + 1, j)

RECURSIVE LStrip(_)
\* str.lstrip()
LStrip(s) ==
  IF s # << >> /\ IsSpace(Head(s)) THEN LStrip(Tail(s)) ELSE s

RECURSIVE RStrip(_)
\* str.rstrip()
RStrip(s) ==
  IF s # << >> /\ IsSpace(s[Len(s)]) THEN RStrip(SubSeq(s, 1, Len(s) - 1)) ELSE s

\* str.strip()
Strip(s) == RStrip(LStrip(s))

RECURSIVE SplitAcc(_, _, _)
\* the fields of s cut at every character sep, cur being the field under way
SplitAcc(s, sep, cur) ==
  IF s = << >> THEN << cur >>
  ELSE IF Head(s) = sep THEN << cur >> \o SplitAcc(Tail(s), sep, << >>)
  ELSE SplitAcc(Tail(s), sep, Append(cur, Head(s)))

\* str.split(sep) for a one-character separator: '' gives [''], 'a  b' gives ['a', '', 'b']
Split(s, sep) == SplitAcc(s, sep, << >>)

\* whether sub occurs in s (the `in` operator on strings)
Contains(s, sub) ==
  \E i \in 0..(Len(s) - Len(sub)) : Slice(s, i, i + Len(sub)) = sub

\* str.startswith
StartsWith(s, pre) == Len(s) >= Len(pre) /\ Slice(s, 0, Len(pre)) = pre

RECURSIVE LexLess(_, _)
\* s < t as Python compares strings: by code point, a proper prefix first
LexLess(s, t) ==
  IF t = << >> THEN FALSE
  ELSE IF s = << >> THEN TRUE
  ELSE IF Head(s) = Head(t) THEN LexLess(Tail(s), Tail(t))
  ELSE Ord(Head(s)) < Ord(Head(t))

RECURSIVE Sorted(_)
\* sorted(S) of a set of strings: the ascending list of its members
Sorted(S) ==
  IF S = {} THEN << >>
  ELSE LET m == CHOOSE x \in S : \A y \in S \ {x} : LexLess(x, y)
       IN  << m >> \o Sorted(S \ {m})

\* the set of members of a list
Range(q) == { q[i] : i \in DOMAIN q }

RECURSIVE JoinWith(_, _)
\* sep.join(parts)
JoinWith(parts, sep) ==
  IF parts = << >> THEN << >>
  ELSE IF Len(parts) = 1 THEN parts[1]
  ELSE parts[1] \o sep \o JoinWith(Tail(parts), sep)

(***************************************************************************)
(* Inputs of build_topic_model.py: corpus files of raw lines.               *)
(***************************************************************************)
\* a raw corpus line as a file iterator yields it: the fields joined by one space, then the line end
MkLine(fields) == JoinWith(fields, << " " >>) \o << "\n" >>

T_ab == << "a", "b" >>
T_b == << "b" >>
T_zb == << "z", "b" >>
T_a1 == << "a", "1" >>
T_the == << "t", "h", "e" >>
T_a_b == << "a", "-", "b" >>
T_plus == << "+" >>
T_dd == << "a", "-", "-", "b" >>
T_hy == << "-", "a", "b" >>
T_12 == << "1", "2" >>
T_pct == << "+", "1", "%" >>
T_1a == << "1", "a" >>
T_dot5 == << ".", "5" >>
T_empty == << >>
T_3d == << "3", "d" >>
T_5ht == << "5", "-", "h", "t" >>

\* lines of the traversal corpora: two documents, a repeated ID, an empty line
TraversalLines ==
  { MkLine(<< << "7" >>, T_ab, T_ab, T_b >>),
    MkLine(<< << "8" >>, T_b, T_ab >>),
    MkLine(<< << "7" >>, T_ab >>),
    << "\n" >> }

\* lines of the vocabulary corpora: every filter has a token it drops; 'a  b' holds an empty
\* token; one line holds nothing but whitespace; ID 1 is on two lines; '3d' and '5-ht' start
\* with a digit and hold letters
VocabLines ==
  { MkLine(<< << "1" >>, T_zb, T_ab, T_a1 >>),
    MkLine(<< << "2" >>, T_dd, T_hy, T_ab >>),
    MkLine(<< << "3" >>, T_12, T_pct, T_1a, T_dot5 >>),
    MkLine(<< << "4" >>, T_b, T_empty, T_zb >>),
    MkLine(<< << "5" >>, T_the, T_a_b, T_plus, T_b >>),
    << " ", " ", "\n" >>,
    MkLine(<< << "1" >>, T_ab, T_ab >>),
    MkLine(<< << "6" >>, T_3d, T_5ht, T_zb >>) }

\* the files of at most n lines drawn from L
FilesUpTo(L, n) == UNION { [1..k -> L] : k \in 0..n }

RECURSIVE CorporaOf(_, _, _)
\* the lists of exactly k files over L holding at most t lines in all
CorporaOf(L, k, t) ==
  IF k = 0 THEN { << >> }
  ELSE UNION { { << f >> \o p : p \in CorporaOf(L, k - 1, t - Len(f)) } : f \in FilesUpTo(L, t) }

TraversalCorpora == UNION { CorporaOf(TraversalLines, k, MaxTotalLines) : k \in 0..MaxFiles }

VocabCorpora == { << f >> : f \in FilesUpTo(VocabLines, MaxVocabLines) }

\* lines of the clock corpora: two documents
ClockLines ==
  { MkLine(<< << "7" >>, T_ab, T_ab, T_b >>),
    MkLine(<< << "8" >>, T_b, T_ab >>) }

ClockCorpora == UNION { CorporaOf(ClockLines, k, MaxTotalLines) : k \in 0..MaxFiles }

\* a stopword file's lines: none, one word, or a blank line and a word
StopWordsUniverse == { {}, { T_the }, { T_empty, T_ab } }

\* -l, "Minimum length of words in characters (default 2)"
DefaultMinWordLength == 2

\* time_logger(logger, interval=5)
interval == 5

\* seconds the clock may have advanced between two reads of time.time()
ClockTicks == { 0, 3, interval + 1 }

\* the same for a run on a machine so slow that every read finds the interval exceeded
SlowTicks == { interval + 1 }

\* the value of a local name that no assignment has bound yet
Unbound == -1

VARIABLES
  \* build_topic_model.py
  PathList, iMaxAbstracts, iMinWordLength, StopWords, tl_ticks,
  pc, err, iFile, iLine, iAbstract, iAbstractsPreviousFiles,
  Words, Docs, WordsInCorpus, matrixWordDoc, csc,
  visitedGwd, visitedBm,
  tl_pos, tl_since, tl_logged, tl_gap, tl_emitGap, tl_err,
  run, firstRun,
  \* AbstractsFromIDs.py
  DataFrame, sub_iMaxAbstracts, sub_pc, iRow, strOut, strErr, processed,
  \* importAbstracts.py
  strIn, inPos, indexExists, strIndex, imp_strOut, imp_stderr, iID, imp_pc,
  indexAtStart, calls, imp_run,
  \* prepare_pubmed_subset.py
  pps_tree, iNumerator, bNumeratorIsStr, iDenominator, pps_pc, SubDirs, iNthDir, Files,
  iNthFileInDir, iFilesInAll, iProcessed, pps_strOut, pps_stderr, pps_seen,
  \* the start of build_topic_model.py and of AbstractsFromIDs.py
  sStopWordsFile, cfg_stderr, cfg_error

\* the generator object time_logger returns, with what the clock has shown since
tlVars == << tl_pos, tl_since, tl_logged, tl_gap, tl_emitGap, tl_err >>

topicVars ==
  << PathList, iMaxAbstracts, iMinWordLength, StopWords, tl_ticks,
     pc, err, iFile, iLine, iAbstract, iAbstractsPreviousFiles,
     Words, Docs, WordsInCorpus, matrixWordDoc, csc,
     visitedGwd, visitedBm, tlVars, run, firstRun >>

subsetVars == << DataFrame, sub_iMaxAbstracts, sub_pc, iRow, strOut, strErr, processed >>

importVars ==
  << strIn, inPos, indexExists, strIndex, imp_strOut, imp_stderr, iID, imp_pc,
     indexAtStart, calls, imp_run >>

sampleVars ==
  << pps_tree, iNumerator, bNumeratorIsStr, iDenominator, pps_pc, SubDirs, iNthDir, Files,
     iNthFileInDir, iFilesInAll, iProcessed, pps_strOut, pps_stderr, pps_seen >>

startVars == << sStopWordsFile, cfg_stderr, cfg_error >>

vars == << topicVars, subsetVars, importVars, sampleVars, startVars >>

\* the state of the programs other than build_topic_model.py, and other than AbstractsFromIDs.py
notTopic == << subsetVars, importVars, sampleVars, startVars >>
notSubset == << topicVars, importVars, sampleVars, startVars >>
notImport == << topicVars, subsetVars, sampleVars, startVars >>
notSample == << topicVars, subsetVars, importVars, startVars >>

(***************************************************************************)
(* time_logger: a generator that both passes drive with next(tl) followed    *)
(* by tl.send(...), once per line.  tl_pos is where it is suspended:        *)
(*   "start"   created, body not entered                                    *)
(*   "recv"    at `lvl, msg = yield` of line 190                            *)
(*   "sent"    at the bare `yield` of line 191                              *)
(*   "closed"  ended by an exception                                        *)
(* The generator reads the clock at line 188, at the test of line 192 and   *)
(* again at line 195 after it has logged.  tl_since is time.time() - t at   *)
(* the last read; tl_gap is what the clock has advanced since the last      *)
(* message, or since time_logger was called when there is none yet, kept    *)
(* up to interval + 1; tl_emitGap is tl_gap at the message the last next()  *)
(* logged, 0 when it logged none; tl_err is the exception a resume raised.  *)
(* tl_ticks holds the advances of the clock between two reads that the run  *)
(* can meet.                                                                *)
(***************************************************************************)
\* a number of seconds, kept up to interval + 1
Capped(x) == IF x > interval THEN interval + 1 ELSE x

\* the generator object as one record
tl ==
  [ pos |-> tl_pos, since |-> tl_since, logged |-> tl_logged,
    gap |-> tl_gap, emitGap |-> tl_emitGap, err |-> tl_err ]

\* mutant: the message is logged but line 195, `t = time.time()`, is missing
TlTest_NoReset(g, d, e) ==
  IF g.since + d > interval
    THEN [ g EXCEPT !.since = Capped(g.since + d), !.logged = TRUE,
                    !.emitGap = Capped(g.gap + d), !.gap = e ]
    ELSE [ g EXCEPT !.since = g.since + d, !.logged = FALSE,
                    !.emitGap = 0, !.gap = Capped(g.gap + d) ]

\* lines 192-195, the clock having advanced by d since the last read and by e between the
\* message and the read of line 195
TlTest(g, d, e) ==
  IF g.since + d > interval
    THEN [ g EXCEPT !.since = 0, !.logged = TRUE,
                    !.emitGap = Capped(g.gap + d), !.gap = e ]
    ELSE [ g EXCEPT !.since = g.since + d, !.logged = FALSE,
                    !.emitGap = 0, !.gap = Capped(g.gap + d) ]

\* the generator resumed with v: "None" by next(tl), "pair" by tl.send((lvl, msg))
\*   start   None runs line 188 up to the yield of line 190; a value other than None cannot
\*           be sent to a generator that has not started: TypeError
\*   recv    the pair is unpacked and the generator stops at line 191; None cannot be
\*           unpacked: TypeError ends the generator
\*   sent    the value is dropped, lines 192-195 run and the loop returns to line 190
\*   closed  StopIteration
TlResume(g, v, d, e) ==
  CASE g.pos = "start" ->
         IF v = "None"
           THEN [ g EXCEPT !.pos = "recv", !.since = 0, !.gap = Capped(g.gap + d) ]
           ELSE [ g EXCEPT !.err = "TypeError" ]
    [] g.pos = "recv" ->
         IF v = "pair"
           THEN [ g EXCEPT !.pos = "sent" ]
           ELSE [ g EXCEPT !.pos = "closed", !.err = "TypeError" ]
    [] g.pos = "sent" -> [ TlTest(g, d, e) EXCEPT !.pos = "recv" ]
    [] g.pos = "closed" -> [ g EXCEPT !.err = "StopIteration" ]

\* next(tl) then tl.send(...) as both passes call them once per line (lines 253-254 and
\* 347-348); an exception of next(tl) leaves the send uncalled
TimeLoggerStep(d, e) ==
  LET atSend == TlResume(tl, "None", d, e)
      after == IF atSend.err = "none" THEN TlResume(atSend, "pair", 0, 0) ELSE atSend
  IN  /\ tl_pos' = after.pos
      /\ tl_since' = after.since
      /\ tl_logged' = after.logged
      /\ tl_gap' = after.gap
      /\ tl_emitGap' = after.emitGap
      /\ tl_err' = after.err

\* tl = time_logger(...): a fresh generator
TimeLoggerNew ==
  /\ tl_pos' = "start"
  /\ tl_since' = 0
  /\ tl_logged' = FALSE
  /\ tl_gap' = 0
  /\ tl_emitGap' = 0
  /\ tl_err' = "none"

(***************************************************************************)
(* get_words_and_documents                                                  *)
(***************************************************************************)
\* mutant: rxNum.fullmatch of "[\+\-]?[0-9\.\,]+\%?": the whole token is a number
rxNumMatch_FullMatch(sToken) ==
  LET unsigned == IF sToken # << >> /\ sToken[1] \in { "+", "-" } THEN Tail(sToken) ELSE sToken
      body == IF unsigned # << >> /\ unsigned[Len(unsigned)] = "%"
                THEN SubSeq(unsigned, 1, Len(unsigned) - 1) ELSE unsigned
  IN  /\ body # << >>
      /\ \A i \in DOMAIN body : body[i] \in Digits \cup { ".", "," }

\* rxNum.match(sToken) for rxNum = "[\+\-]?[0-9\.\,]\%?": re.match anchors at the start only
rxNumMatch(sToken) ==
  LET NumChar(c) == c \in Digits \cup { ".", "," }
  IN  \/ Len(sToken) >= 1 /\ NumChar(sToken[1])
      \/ Len(sToken) >= 2 /\ sToken[1] \in { "+", "-" } /\ NumChar(sToken[2])

\* the test of lines 259-262 that removes sToken from NewWords (sToken not empty)
TokenRemoved(sToken, iMinLen) ==
  \/ Contains(sToken, << "-", "-" >>)
  \/ sToken[1] = "-"
  \/ rxNumMatch(sToken)
  \/ Len(sToken) < iMinLen

\* mutant: the line is split without being stripped first
ValuesOf_NoStrip(sAbstract) == Split(sAbstract, " ")

\* Values = sAbstract.strip().split(' ')
ValuesOf(sAbstract) == Split(Strip(sAbstract), " ")

\* NewWords = set(Values[1:]) - StopWords
NewWordsOf(Values, Stop) == Range(Tail(Values)) \ Stop

\* NewWords after the loop of lines 258-263
KeptWords(NewWords, iMinLen) == { w \in NewWords : ~TokenRemoved(w, iMinLen) }

\* the file the loop is at, and the line its iterator yields next
CurFile == PathList[iFile]
CurLine == CurFile[iLine]

\* enumerate(strFile, start=iAbstractsPreviousFiles): the index paired with the line at position iLine
EnumIndex == iAbstractsPreviousFiles + (iLine - 1)

\* mutant: the next file is handed the number of lines read, one more than the last index
GwdNextFile_Count(i) ==
  /\ iAbstractsPreviousFiles' = i + 1
  /\ iAbstract' = i
  /\ iFile' = iFile + 1
  /\ iLine' = 1
  /\ pc' = "gwd_file"

\* line 265, `iAbstractsPreviousFiles = iAbstract`, and the step to the next file
GwdNextFile(i) ==
  /\ iAbstractsPreviousFiles' = i
  /\ iAbstract' = i
  /\ iFile' = iFile + 1
  /\ iLine' = 1
  /\ pc' = "gwd_file"

\* the orders in which a set can be iterated
IterationOrders(S) ==
  { q \in [1..Cardinality(S) -> S] : \A i, j \in DOMAIN q : i # j => q[i] # q[j] }

\* mutant: return list(Words), Docs: the list is in the set's iteration order
GwdReturnStep_Unsorted ==
  /\ WordsInCorpus' \in IterationOrders(Words)
  /\ pc' = "returned"

\* line 269: return sorted(Words), Docs
GwdReturnStep ==
  /\ WordsInCorpus' = Sorted(Words)
  /\ pc' = "returned"

\* lines 241-244: the counter is past the cap, the remaining files are skipped
GwdSkipRemaining ==
  /\ pc = "gwd_file"
  /\ iFile <= Len(PathList)
  /\ iAbstractsPreviousFiles > iMaxAbstracts
  /\ GwdReturnStep
  /\ UNCHANGED notTopic
  /\ UNCHANGED << PathList, iMaxAbstracts, iMinWordLength, StopWords, tl_ticks, err, iFile, iLine,
                  iAbstract, iAbstractsPreviousFiles, Words, Docs, matrixWordDoc, csc,
                  visitedGwd, visitedBm, tlVars, run, firstRun >>

\* the for loop of line 240 is exhausted
GwdReturn ==
  /\ pc = "gwd_file"
  /\ iFile > Len(PathList)
  /\ GwdReturnStep
  /\ UNCHANGED notTopic
  /\ UNCHANGED << PathList, iMaxAbstracts, iMinWordLength, StopWords, tl_ticks, err, iFile, iLine,
                  iAbstract, iAbstractsPreviousFiles, Words, Docs, matrixWordDoc, csc,
                  visitedGwd, visitedBm, tlVars, run, firstRun >>

\* lines 245-249: the file is opened and its lines are enumerated
GwdOpenFile ==
  /\ pc = "gwd_file"
  /\ iFile <= Len(PathList)
  /\ ~(iAbstractsPreviousFiles > iMaxAbstracts)
  /\ pc' = "gwd_line"
  /\ iLine' = 1
  /\ UNCHANGED notTopic
  /\ UNCHANGED << PathList, iMaxAbstracts, iMinWordLength, StopWords, tl_ticks, err, iFile,
                  iAbstract, iAbstractsPreviousFiles, Words, Docs, WordsInCorpus,
                  matrixWordDoc, csc, visitedGwd, visitedBm, tlVars,
                  run, firstRun >>

\* lines 251-252: the index of the next line is past the cap; break, then line 265
GwdCapBreak ==
  /\ pc = "gwd_line"
  /\ iLine <= Len(CurFile)
  /\ EnumIndex > iMaxAbstracts
  /\ GwdNextFile(EnumIndex)
  /\ UNCHANGED notTopic
  /\ UNCHANGED << PathList, iMaxAbstracts, iMinWordLength, StopWords, tl_ticks, err, Words, Docs,
                  WordsInCorpus, matrixWordDoc, csc, visitedGwd, visitedBm,
                  tlVars, run, firstRun >>

\* lines 253-264 for one line; an exception of the logger ends the pass; an empty token left
\* in NewWords makes sToken[0] raise IndexError
GwdReadLine ==
  /\ pc = "gwd_line"
  /\ iLine <= Len(CurFile)
  /\ ~(EnumIndex > iMaxAbstracts)
  /\ \E d, e \in tl_ticks : TimeLoggerStep(d, e)
  /\ LET Values == ValuesOf(CurLine)
         NewWords == NewWordsOf(Values, StopWords)
     IN  /\ iAbstract' = EnumIndex
         /\ IF tl_err' # "none"
              THEN /\ pc' = "crash"
                   /\ err' = tl_err'
                   /\ UNCHANGED << Docs, visitedGwd, Words, iLine >>
              ELSE /\ Docs' = Append(Docs, Values[1])
                   /\ visitedGwd' = Append(visitedGwd, << iFile, iLine >>)
                   /\ IF T_empty \in NewWords
                        THEN /\ pc' = "crash"
                             /\ err' = "IndexError"
                             /\ UNCHANGED << Words, iLine >>
                        ELSE /\ Words' = Words \cup KeptWords(NewWords, iMinWordLength)
                             /\ iLine' = iLine + 1
                             /\ UNCHANGED << pc, err >>
  /\ UNCHANGED notTopic
  /\ UNCHANGED << PathList, iMaxAbstracts, iMinWordLength, StopWords, tl_ticks, iFile,
                  iAbstractsPreviousFiles, WordsInCorpus, matrixWordDoc, csc,
                  visitedBm, run, firstRun >>

\* the file is exhausted: line 265 reads iAbstract, which no line of any file has bound yet
GwdEndOfFile ==
  /\ pc = "gwd_line"
  /\ iLine > Len(CurFile)
  /\ IF iAbstract = Unbound
       THEN /\ pc' = "crash"
            /\ err' = "UnboundLocalError"
            /\ UNCHANGED << iFile, iLine, iAbstract, iAbstractsPreviousFiles >>
       ELSE /\ GwdNextFile(iAbstract)
            /\ err' = err
  /\ UNCHANGED notTopic
  /\ UNCHANGED << PathList, iMaxAbstracts, iMinWordLength, StopWords, tl_ticks, Words, Docs,
                  WordsInCorpus, matrixWordDoc, csc, visitedGwd, visitedBm,
                  tlVars, run, firstRun >>

(***************************************************************************)
(* build_matrix                                                             *)
(***************************************************************************)
\* mutant: an ID keeps the first position it was seen at
DocIndex_FirstWins ==
  [ sDocID \in Range(Docs) |->
      CHOOSE iDoc \in 0..(Len(Docs) - 1) :
        /\ Docs[iDoc + 1] = sDocID
        /\ \A j \in 0..(Len(Docs) - 1) : Docs[j + 1] = sDocID => iDoc <= j ]

\* DocIndex = {sDocID: iDoc for iDoc, sDocID in enumerate(Docs)}: a later position replaces an earlier one
DocIndex ==
  [ sDocID \in Range(Docs) |->
      CHOOSE iDoc \in 0..(Len(Docs) - 1) :
        /\ Docs[iDoc + 1] = sDocID
        /\ \A j \in 0..(Len(Docs) - 1) : Docs[j + 1] = sDocID => j <= iDoc ]

\* WordIndex = {sWord: iWord for iWord, sWord in enumerate(WordsInCorpus)}
WordIndex ==
  [ sWord \in Range(WordsInCorpus) |->
      CHOOSE iWord \in 0..(Len(WordsInCorpus) - 1) :
        /\ WordsInCorpus[iWord + 1] = sWord
        /\ \A j \in 0..(Len(WordsInCorpus) - 1) : WordsInCorpus[j + 1] = sWord => j <= iWord ]

\* the cells of a matrix of the shape (len(WordsInCorpus), len(Docs))
Cells == (0..(Len(WordsInCorpus) - 1)) \X (0..(Len(Docs) - 1))

\* mutant: a counted word is stored as present, not with its count
CountOf_Presence(Tokens, w) == 1

\* Counter(...)[w] for the list of lines 352-353: the occurrences of w among the tokens after the ID
CountOf(Tokens, w) == Cardinality({ i \in 2..Len(Tokens) : Tokens[i] = w })

\* the keys of WordCounts: the tokens after the ID that are in WordIndex
CountedWords(Tokens) == { Tokens[i] : i \in 2..Len(Tokens) } \cap DOMAIN WordIndex

\* matrixWordDoc.tocsc(): per column, the rows that hold a nonzero with their values
tocsc(m) ==
  [ shape |-> << Len(WordsInCorpus), Len(Docs) >>,
    cols  |-> [ c \in 0..(Len(Docs) - 1) |->
                  { << r, m[<< r, c >>] >> : r \in { x \in 0..(Len(WordsInCorpus) - 1) : m[<< x, c >>] # 0 } } ] ]

\* MAIN line 371 and lines 295-340: the indexes, a fresh logger, the empty lil_matrix
BmInit ==
  /\ pc = "returned"
  /\ pc' = "bm_file"
  /\ matrixWordDoc' = [ rc \in Cells |-> 0 ]
  /\ TimeLoggerNew
  /\ iAbstractsPreviousFiles' = 0
  /\ iAbstract' = Unbound
  /\ iFile' = 1
  /\ iLine' = 1
  /\ UNCHANGED notTopic
  /\ UNCHANGED << PathList, iMaxAbstracts, iMinWordLength, StopWords, tl_ticks, err, Words, Docs,
                  WordsInCorpus, csc, visitedGwd, visitedBm, run, firstRun >>

\* mutant: the counter of build_matrix starts again at 0 with every file
BmNextFile_PerFile(i) ==
  /\ iAbstractsPreviousFiles' = 0
  /\ iAbstract' = i
  /\ iFile' = iFile + 1
  /\ iLine' = 1
  /\ pc' = "bm_file"

\* line 359, `iAbstractsPreviousFiles = iAbstract`, and the step to the next file
BmNextFile(i) ==
  /\ iAbstractsPreviousFiles' = i
  /\ iAbstract' = i
  /\ iFile' = iFile + 1
  /\ iLine' = 1
  /\ pc' = "bm_file"

\* lines 341-343: the file is opened; build_matrix has no test that skips the remaining files
BmOpenFile ==
  /\ pc = "bm_file"
  /\ iFile <= Len(PathList)
  /\ pc' = "bm_line"
  /\ iLine' = 1
  /\ UNCHANGED notTopic
  /\ UNCHANGED << PathList, iMaxAbstracts, iMinWordLength, StopWords, tl_ticks, err, iFile,
                  iAbstract, iAbstractsPreviousFiles, Words, Docs, WordsInCorpus,
                  matrixWordDoc, csc, visitedGwd, visitedBm, tlVars,
                  run, firstRun >>

\* line 360: return matrixWordDoc.tocsc()
BmReturn ==
  /\ pc = "bm_file"
  /\ iFile > Len(PathList)
  /\ csc' = tocsc(matrixWordDoc)
  /\ pc' = "done"
  /\ UNCHANGED notTopic
  /\ UNCHANGED << PathList, iMaxAbstracts, iMinWordLength, StopWords, tl_ticks, err, iFile, iLine,
                  iAbstract, iAbstractsPreviousFiles, Words, Docs, WordsInCorpus,
                  matrixWordDoc, visitedGwd, visitedBm, tlVars,
                  run, firstRun >>

\* lines 345-346: the index of the next line is past the cap; break, then line 359
BmCapBreak ==
  /\ pc = "bm_line"
  /\ iLine <= Len(CurFile)
  /\ EnumIndex > iMaxAbstracts
  /\ BmNextFile(EnumIndex)
  /\ UNCHANGED notTopic
  /\ UNCHANGED << PathList, iMaxAbstracts, iMinWordLength, StopWords, tl_ticks, err, Words, Docs,
                  WordsInCorpus, matrixWordDoc, csc, visitedGwd, visitedBm,
                  tlVars, run, firstRun >>

\* lines 347-358 for one line: an exception of the logger ends the pass; every counted word
\* is assigned into the column DocIndex gives the ID
BmReadLine ==
  /\ pc = "bm_line"
  /\ iLine <= Len(CurFile)
  /\ ~(EnumIndex > iMaxAbstracts)
  /\ \E d, e \in tl_ticks : TimeLoggerStep(d, e)
  /\ LET TokensInAbstract == ValuesOf(CurLine)
         WordCounts == CountedWords(TokensInAbstract)
         sDocID == TokensInAbstract[1]
     IN  /\ iAbstract' = EnumIndex
         /\ IF tl_err' # "none"
              THEN /\ pc' = "crash"
                   /\ err' = tl_err'
                   /\ UNCHANGED << visitedBm, matrixWordDoc, iLine >>
              ELSE /\ visitedBm' = Append(visitedBm, << iFile, iLine >>)
                   /\ IF WordCounts # {} /\ sDocID \notin DOMAIN DocIndex
                        THEN /\ pc' = "crash"
                             /\ err' = "KeyError"
                             /\ UNCHANGED << matrixWordDoc, iLine >>
                        ELSE /\ matrixWordDoc' =
                                  [ rc \in Cells |->
                                      IF /\ WordCounts # {}
                                         /\ rc[2] = DocIndex[sDocID]
                                         /\ \E w \in WordCounts : WordIndex[w] = rc[1]
                                        THEN CountOf(TokensInAbstract,
                                                     CHOOSE w \in WordCounts : WordIndex[w] = rc[1])
                                        ELSE matrixWordDoc[rc] ]
                             /\ iLine' = iLine + 1
                             /\ UNCHANGED << pc, err >>
  /\ UNCHANGED notTopic
  /\ UNCHANGED << PathList, iMaxAbstracts, iMinWordLength, StopWords, tl_ticks, iFile,
                  iAbstractsPreviousFiles, Words, Docs, WordsInCorpus, csc,
                  visitedGwd, run, firstRun >>

\* the file is exhausted: line 359 reads iAbstract, which no line of any file has bound yet
BmEndOfFile ==
  /\ pc = "bm_line"
  /\ iLine > Len(CurFile)
  /\ IF iAbstract = Unbound
       THEN /\ pc' = "crash"
            /\ err' = "UnboundLocalError"
            /\ UNCHANGED << iFile, iLine, iAbstract, iAbstractsPreviousFiles >>
       ELSE /\ BmNextFile(iAbstract)
            /\ err' = err
  /\ UNCHANGED notTopic
  /\ UNCHANGED << PathList, iMaxAbstracts, iMinWordLength, StopWords, tl_ticks, Words, Docs,
                  WordsInCorpus, matrixWordDoc, csc, visitedGwd, visitedBm,
                  tlVars, run, firstRun >>

(***************************************************************************)
(* A second run of get_words_and_documents on the same arguments.           *)
(***************************************************************************)
\* what a run of get_words_and_documents gives its caller: the two lists, or the exception
RunResult ==
  [ err   |-> err,
    Words |-> IF pc = "returned" THEN WordsInCorpus ELSE << >>,
    Docs  |-> IF pc = "returned" THEN Docs ELSE << >> ]

\* lines 235-239: the locals of get_words_and_documents at its entry
GwdEntry ==
  /\ pc' = "gwd_file"
  /\ err' = "none"
  /\ iFile' = 1
  /\ iLine' = 1
  /\ iAbstract' = Unbound
  /\ iAbstractsPreviousFiles' = 0
  /\ Words' = {}
  /\ Docs' = << >>
  /\ WordsInCorpus' = << >>
  /\ visitedGwd' = << >>
  /\ TimeLoggerNew

\* the program is run again on the unchanged files with the same parameters
GwdRerun ==
  /\ pc \in { "returned", "crash" }
  /\ run = 1
  /\ run' = 2
  /\ firstRun' = RunResult
  /\ GwdEntry
  /\ UNCHANGED notTopic
  /\ UNCHANGED << PathList, iMaxAbstracts, iMinWordLength, StopWords, tl_ticks, matrixWordDoc, csc,
                  visitedBm >>

\* what a run of MAIN up to line 371 leaves: the vocabulary, the axis and the matrix, or the
\* exception; logged tells whether the last next(tl) of the run logged a message
MainResult ==
  [ err    |-> err,
    Words  |-> IF pc = "done" THEN WordsInCorpus ELSE << >>,
    Docs   |-> IF pc = "done" THEN Docs ELSE << >>,
    csc    |-> IF pc = "done" THEN csc ELSE [ shape |-> << 0, 0 >>, cols |-> << >> ],
    logged |-> tl_logged ]

\* the program is run again on the unchanged files with the same parameters, the clock
\* free to advance as it did not in the first run
MainRerun ==
  /\ pc \in { "done", "crash" }
  /\ run = 1
  /\ run' = 2
  /\ firstRun' = MainResult
  /\ GwdEntry
  /\ matrixWordDoc' = << >>
  /\ csc' = [ shape |-> << 0, 0 >>, cols |-> << >> ]
  /\ visitedBm' = << >>
  /\ UNCHANGED notTopic
  /\ UNCHANGED << PathList, iMaxAbstracts, iMinWordLength, StopWords, tl_ticks >>

(***************************************************************************)
(* AbstractsFromIDs.py: BuildSubset                                         *)
(***************************************************************************)
\* str.lower() on one character
LowerChar(c) ==
  CASE c = "A" -> "a"
    [] c = "B" -> "b"
    [] c = "D" -> "d"
    [] c = "I" -> "i"
    [] c = "M" -> "m"
    [] c = "P" -> "p"
    [] c = "T" -> "t"
    [] OTHER -> c

\* str.lower()
Lower(s) == [ i \in DOMAIN s |-> LowerChar(s[i]) ]

\* the characters \w matches
IsWordChar(c) ==
  c \in Digits \cup { "a", "b", "d", "e", "h", "i", "m", "p", "t", "z",
                      "A", "B", "D", "I", "M", "P", "T", "_" }

RECURSIVE FindAllAcc(_, _)
\* the maximal runs of [\w-] in s, cur being the run under way
FindAllAcc(s, cur) ==
  IF s = << >> THEN (IF cur = << >> THEN << >> ELSE << cur >>)
  ELSE IF IsWordChar(Head(s)) \/ Head(s) = "-" THEN FindAllAcc(Tail(s), Append(cur, Head(s)))
  ELSE (IF cur = << >> THEN << >> ELSE << cur >>) \o FindAllAcc(Tail(s), << >>)

\* regex.findall(r"[\w-]+", sData)
FindAll(sData) == FindAllAcc(sData, << >>)

RECURSIVE ParseInt(_)
\* int(s) for a string of decimal digits
ParseInt(s) ==
  IF s = << >> THEN 0
  ELSE 10 * ParseInt(SubSeq(s, 1, Len(s) - 1)) + (Ord(s[Len(s)]) - Ord("0"))

\* the decimal digit of a number below ten
DigitChar(d) == CHOOSE c \in Digits : Ord(c) - Ord("0") = d

RECURSIVE Decimal(_)
\* '%i' % n, '{:d}'.format(n) for n >= 0
Decimal(n) ==
  IF n < 10 THEN << DigitChar(n) >> ELSE Append(Decimal(n \div 10), DigitChar(n % 10))

RECURSIVE ZeroPad(_, _)
\* s left-padded with '0' to at least w characters
ZeroPad(s, w) == IF Len(s) < w THEN ZeroPad(<< "0" >> \o s, w) ELSE s

\* '{:08d}'.format(n)
Format08d(n) == ZeroPad(Decimal(n), 8)

\* lines 146-148: lower-case the identifier and drop a leading 'pmid'
PubMedIDOf(PubMedID) ==
  LET low == Lower(PubMedID)
  IN  IF StartsWith(low, << "p", "m", "i", "d" >>) THEN Slice(low, 4, Len(low)) ELSE low

\* mutant: the slice drops the last 3 characters
SubDirOf_Slice3(sPubMedID) ==
  ZeroPad(Slice(sPubMedID, 0, IF Len(sPubMedID) - 3 < 0 THEN 0 ELSE Len(sPubMedID) - 3), 4)

\* lines 149-152: sPubMedID[0:-4], then '0' prepended while shorter than 4
SubDirOf(sPubMedID) ==
  ZeroPad(Slice(sPubMedID, 0, IF Len(sPubMedID) - 4 < 0 THEN 0 ELSE Len(sPubMedID) - 4), 4)

\* line 153 after the root directory: sSubDir + "/PMID" + sPubMedID + ".txt"
TxtFNameOf(sPubMedID) ==
  SubDirOf(sPubMedID) \o << "/", "P", "M", "I", "D" >> \o sPubMedID \o << ".", "t", "x", "t" >>

\* identifiers as the spreadsheet column holds them
ID_7 == << "7" >>
ID_1234 == << "1", "2", "3", "4" >>
ID_123456 == << "1", "2", "3", "4", "5", "6" >>
ID_1234567 == << "1", "2", "3", "4", "5", "6", "7" >>
ID_pmid8 == << "p", "m", "i", "d", "0", "0", "0", "9", "9", "9", "9", "9" >>
ID_Pmid5 == << "P", "m", "i", "d", "1", "2", "3", "4", "5" >>
ID_PMID9 == << "P", "M", "I", "D", "1", "2", "3", "4", "5", "6", "7", "8", "9" >>

IDUniverse == { ID_7, ID_1234, ID_123456, ID_1234567, ID_pmid8, ID_Pmid5, ID_PMID9 }

\* what open() and read() can meet at sTxtFName; "text" carries the file's characters
FileUniverse ==
  { [ state |-> "missing", data |-> << >> ],
    [ state |-> "noperm", data |-> << >> ],
    [ state |-> "readfail", data |-> << >> ],
    [ state |-> "text", data |-> << >> ],
    [ state |-> "text", data |-> << " ", "\n" >> ],
    [ state |-> "text", data |-> << "A", "b", " ", " ", "b", "-", "a", ".", "\n" >> ],
    [ state |-> "text", data |-> << "?", "!", "\n" >> ] }

\* mutant: an empty file is reported but the `continue` is missing
SubsetEffect_NoContinue(sPubMedID, file) ==
  LET sData == Strip(Lower(file.data))
      line == Format08d(ParseInt(sPubMedID)) \o << " " >> \o JoinWith(FindAll(sData), << " " >>) \o << "\n" >>
  IN  CASE file.state = "missing" ->
             [ out |-> << >>, err |-> << [ msg |-> "Unable to find file", arg |-> sPubMedID ] >>,
               pc |-> "loop" ]
        [] file.state = "noperm" ->
             [ out |-> << >>, err |-> << >>, pc |-> "crash" ]
        [] file.state = "readfail" ->
             [ out |-> << >>, err |-> << [ msg |-> "Failure processing file", arg |-> TxtFNameOf(sPubMedID) ] >>,
               pc |-> "exit1" ]
        [] file.state = "text" /\ sData = << >> ->
             [ out |-> << line >>, err |-> << [ msg |-> "Found empty file", arg |-> TxtFNameOf(sPubMedID) ] >>,
               pc |-> "loop" ]
        [] OTHER ->
             [ out |-> << line >>, err |-> << >>, pc |-> "loop" ]

\* lines 154-170 for one identifier: what is written to strOut and strErr, and where control goes
\*   missing   open raises FileNotFoundError: reported, the loop goes on
\*   noperm    open raises PermissionError, which no handler catches: the run dies
\*   readfail  read raises: reported, exit(1)
\*   text      read gives the data: an empty sData is reported and skipped, else the line is written
SubsetEffect(sPubMedID, file) ==
  LET sData == Strip(Lower(file.data))
      line == Format08d(ParseInt(sPubMedID)) \o << " " >> \o JoinWith(FindAll(sData), << " " >>) \o << "\n" >>
  IN  CASE file.state = "missing" ->
             [ out |-> << >>, err |-> << [ msg |-> "Unable to find file", arg |-> sPubMedID ] >>,
               pc |-> "loop" ]
        [] file.state = "noperm" ->
             [ out |-> << >>, err |-> << >>, pc |-> "crash" ]
        [] file.state = "readfail" ->
             [ out |-> << >>, err |-> << [ msg |-> "Failure processing file", arg |-> TxtFNameOf(sPubMedID) ] >>,
               pc |-> "exit1" ]
        [] file.state = "text" /\ sData = << >> ->
             [ out |-> << >>, err |-> << [ msg |-> "Found empty file", arg |-> TxtFNameOf(sPubMedID) ] >>,
               pc |-> "loop" ]
        [] OTHER ->
             [ out |-> << line >>, err |-> << >>, pc |-> "loop" ]

\* lines 143-145: the cap is reached; the stop is reported and BuildSubset returns
SubsetStop ==
  /\ sub_pc = "loop"
  /\ iRow < Len(DataFrame)
  /\ iRow >= sub_iMaxAbstracts
  /\ strErr' = Append(strErr, [ msg |-> "Stopping", arg |-> Decimal(iRow) ])
  /\ sub_pc' = "returned"
  /\ UNCHANGED notSubset
  /\ UNCHANGED << DataFrame, sub_iMaxAbstracts, iRow, strOut, processed >>

\* DataFrame.itertuples() is exhausted
SubsetEnd ==
  /\ sub_pc = "loop"
  /\ iRow >= Len(DataFrame)
  /\ sub_pc' = "returned"
  /\ UNCHANGED notSubset
  /\ UNCHANGED << DataFrame, sub_iMaxAbstracts, iRow, strOut, strErr, processed >>

\* lines 146-170 for the identifier of row iRow, the archive holding `file` at its path
SubsetRow ==
  /\ sub_pc = "loop"
  /\ iRow < Len(DataFrame)
  /\ ~(iRow >= sub_iMaxAbstracts)
  /\ \E file \in FileUniverse :
       LET PubMedID == DataFrame[iRow + 1]
           sPubMedID == PubMedIDOf(PubMedID)
           eff == SubsetEffect(sPubMedID, file)
       IN  /\ strOut' = strOut \o eff.out
           /\ strErr' = strErr \o eff.err
           /\ sub_pc' = eff.pc
           /\ processed' = Append(processed,
                 [ PubMedID |-> PubMedID, sPubMedID |-> sPubMedID,
                   sSubDir |-> SubDirOf(sPubMedID), file |-> file ])
  /\ iRow' = iRow + 1
  /\ UNCHANGED notSubset
  /\ UNCHANGED << DataFrame, sub_iMaxAbstracts >>

\* AbstractsFromIDs.py is not running
SubsetIdle ==
  /\ DataFrame = << >>
  /\ sub_iMaxAbstracts = 0
  /\ sub_pc = "idle"
  /\ iRow = 0
  /\ strOut = << >>
  /\ strErr = << >>
  /\ processed = << >>

SubsetInit ==
  /\ DataFrame \in UNION { [1..n -> IDUniverse] : n \in 0..MaxRows }
  /\ sub_iMaxAbstracts \in 0..MaxCap
  /\ sub_pc = "loop"
  /\ iRow = 0
  /\ strOut = << >>
  /\ strErr = << >>
  /\ processed = << >>


(***************************************************************************)
(* importAbstracts.py: GetCmdLineParameters, ProcessNextAbstract, main      *)
(***************************************************************************)
RECURSIVE SplitWSAcc(_, _)
\* the maximal runs of non-whitespace characters in s, cur being the run under way
SplitWSAcc(s, cur) ==
  IF s = << >> THEN (IF cur = << >> THEN << >> ELSE << cur >>)
  ELSE IF IsSpace(Head(s))
    THEN (IF cur = << >> THEN << >> ELSE << cur >>) \o SplitWSAcc(Tail(s), << >>)
  ELSE SplitWSAcc(Tail(s), Append(cur, Head(s)))

\* str.split() without a separator
SplitWS(s) == SplitWSAcc(s, << >>)

\* line 135: "%i\t%s\t%s\n" % (iID, sAuthors, sTitle)
IndexLine(id, sAuthors, sTitle) ==
  Decimal(id) \o << "\t" >> \o sAuthors \o << "\t" >> \o sTitle \o << "\n" >>

\* line 136: "%i %s\n" % (iID, " ".join(sText.split()))
CorpusLine(id, sText) ==
  Decimal(id) \o << " " >> \o JoinWith(SplitWS(sText), << " " >>) \o << "\n" >>

\* int(sLine.split('\t')[0])
IndexLineID(sLine) == ParseInt(Strip(Split(sLine, "\t")[1]))

\* raw lines of the input file: a blank line, a one-word line, a line with spaces to normalise
IL_blank == << "\n" >>
IL_word == << "T", "\n" >>
IL_text == << " ", "a", " ", " ", "b", "\n" >>

InputLines == { IL_blank, IL_word, IL_text }

\* index files earlier runs of the importer can have left: none, an empty one, entries in rising order
IndexUniverse ==
  { [ exists |-> FALSE, lines |-> << >> ],
    [ exists |-> TRUE, lines |-> << >> ],
    [ exists |-> TRUE, lines |-> << IndexLine(42, << "A" >>, << "T" >>) >> ],
    [ exists |-> TRUE, lines |-> << IndexLine(7, << "A" >>, << "T" >>),
                                    IndexLine(42, << "B" >>, << "T" >>) >> ] }

\* mutant: the ID is taken from the first line of the index file
StartID_FirstLine(exists, lines) ==
  IF exists
    THEN IndexLineID(IF lines = << >> THEN << "0" >> ELSE lines[1]) + 1
    ELSE 1

\* mutant: the run starts at the ID of the last line, without the `+ 1`
StartID_NoIncrement(exists, lines) ==
  IF exists
    THEN IndexLineID(IF lines = << >> THEN << "0" >> ELSE lines[Len(lines)])
    ELSE 1

\* lines 95-108: one more than the ID on the last line of an existing index file ('0' when
\* the file is empty), 1 when there is no index file
StartID(exists, lines) ==
  IF exists
    THEN IndexLineID(IF lines = << >> THEN << "0" >> ELSE lines[Len(lines)]) + 1
    ELSE 1

\* strIn.readline() at position pos: the line, or '' at the end of the input
ReadLine(pos) == IF pos <= Len(strIn) THEN strIn[pos] ELSE << >>

RECURSIVE TitlePos(_)
\* lines 119-128: the position of the first line at or after pos that is not blank,
\* Len(strIn) + 1 when the input ends first
TitlePos(pos) ==
  IF pos > Len(strIn) THEN Len(strIn) + 1
  ELSE IF Strip(strIn[pos]) # << >> THEN pos
  ELSE TitlePos(pos + 1)

\* the position after n more readline() calls from pos
After(pos, n) == IF pos + n > Len(strIn) + 1 THEN Len(strIn) + 1 ELSE pos + n

\* mutant: `iID += 1` is outside the else branch
ProcessEffect_AlwaysIncrement(id, sTitle, sAuthors, sText) ==
  IF sTitle = << >> \/ sAuthors = << >> \/ sText = << >>
    THEN [ index |-> << >>, out |-> << >>,
           err |-> << [ msg |-> "Found incomplete abstract", authors |-> sAuthors,
                        title |-> sTitle, text |-> sText ] >>,
           ret |-> id + 1 ]
    ELSE [ index |-> << IndexLine(id, sAuthors, sTitle) >>,
           out |-> << CorpusLine(id, sText) >>,
           err |-> << >>,
           ret |-> id + 1 ]

\* mutant: the index record is written before the test for an empty field
ProcessEffect_IndexBeforeTest(id, sTitle, sAuthors, sText) ==
  IF sTitle = << >> \/ sAuthors = << >> \/ sText = << >>
    THEN [ index |-> << IndexLine(id, sAuthors, sTitle) >>, out |-> << >>,
           err |-> << [ msg |-> "Found incomplete abstract", authors |-> sAuthors,
                        title |-> sTitle, text |-> sText ] >>,
           ret |-> id ]
    ELSE [ index |-> << IndexLine(id, sAuthors, sTitle) >>,
           out |-> << CorpusLine(id, sText) >>,
           err |-> << >>,
           ret |-> id + 1 ]

\* lines 131-138: what is written to strIndex, strOut and sys.stderr, and the value returned
ProcessEffect(id, sTitle, sAuthors, sText) ==
  IF sTitle = << >> \/ sAuthors = << >> \/ sText = << >>
    THEN [ index |-> << >>, out |-> << >>,
           err |-> << [ msg |-> "Found incomplete abstract", authors |-> sAuthors,
                        title |-> sTitle, text |-> sText ] >>,
           ret |-> id ]
    ELSE [ index |-> << IndexLine(id, sAuthors, sTitle) >>,
           out |-> << CorpusLine(id, sText) >>,
           err |-> << >>,
           ret |-> id + 1 ]

\* GetCmdLineParameters, lines 83-111: the output is opened empty, the index file is read
\* for the starting ID and opened for appending, which creates it
ImpGetCmdLineParameters ==
  /\ imp_pc = "start"
  /\ iID' = StartID(indexExists, strIndex)
  /\ indexAtStart' = [ exists |-> indexExists, lines |-> strIndex ]
  /\ indexExists' = TRUE
  /\ imp_strOut' = << >>
  /\ inPos' = 1
  /\ calls' = << >>
  /\ imp_pc' = "loop"
  /\ UNCHANGED notImport
  /\ UNCHANGED << strIn, strIndex, imp_stderr, imp_run >>

\* a call of ProcessNextAbstract that finds a title line, lines 119-138
ImpProcessNextAbstract ==
  /\ imp_pc = "loop"
  /\ TitlePos(inPos) <= Len(strIn)
  /\ LET t == TitlePos(inPos)
         sTitle == Strip(ReadLine(t))
         sAuthors == Strip(ReadLine(t + 1))
         sText == Strip(ReadLine(t + 2))
         eff == ProcessEffect(iID, sTitle, sAuthors, sText)
     IN  /\ inPos' = After(t, 3)
         /\ strIndex' = strIndex \o eff.index
         /\ imp_strOut' = imp_strOut \o eff.out
         /\ imp_stderr' = imp_stderr \o eff.err
         /\ iID' = eff.ret
         /\ calls' = Append(calls,
              [ sTitle |-> sTitle, sAuthors |-> sAuthors, sText |-> sText,
                iID |-> iID, returned |-> eff.ret,
                nIndex |-> Len(strIndex') - Len(strIndex),
                nOut |-> Len(imp_strOut') - Len(imp_strOut),
                nErr |-> Len(imp_stderr') - Len(imp_stderr),
                indexLen |-> Len(strIndex') ])
  /\ UNCHANGED notImport
  /\ UNCHANGED << strIn, indexExists, imp_pc, indexAtStart, imp_run >>

\* a call of ProcessNextAbstract that meets the end of the input, lines 119-127: it returns
\* None, the loop of lines 146-147 ends and the files are closed
ImpEndOfInput ==
  /\ imp_pc = "loop"
  /\ TitlePos(inPos) > Len(strIn)
  /\ inPos' = Len(strIn) + 1
  /\ imp_pc' = "done"
  /\ UNCHANGED notImport
  /\ UNCHANGED << strIn, indexExists, strIndex, imp_strOut, imp_stderr, iID,
                  indexAtStart, calls, imp_run >>

\* the program is started again on the same input and the same index file
ImpRunAgain ==
  /\ imp_pc = "done"
  /\ imp_run < MaxRuns
  /\ imp_run' = imp_run + 1
  /\ imp_pc' = "start"
  /\ imp_stderr' = << >>
  /\ UNCHANGED notImport
  /\ UNCHANGED << strIn, inPos, indexExists, strIndex, imp_strOut, iID, indexAtStart, calls >>

\* importAbstracts.py is not running
ImportIdle ==
  /\ strIn = << >>
  /\ inPos = 1
  /\ indexExists = FALSE
  /\ strIndex = << >>
  /\ imp_strOut = << >>
  /\ imp_stderr = << >>
  /\ iID = 1
  /\ imp_pc = "idle"
  /\ indexAtStart = [ exists |-> FALSE, lines |-> << >> ]
  /\ calls = << >>
  /\ imp_run = 1

ImportInit ==
  /\ strIn \in UNION { [1..n -> InputLines] : n \in 0..MaxInputLines }
  /\ \E x \in IndexUniverse : indexExists = x.exists /\ strIndex = x.lines
  /\ inPos = 1
  /\ imp_strOut = << >>
  /\ imp_stderr = << >>
  /\ iID = 1
  /\ imp_pc = "start"
  /\ indexAtStart = [ exists |-> FALSE, lines |-> << >> ]
  /\ calls = << >>
  /\ imp_run = 1


(***************************************************************************)
(* prepare_pubmed_subset.py: build_subset                                   *)
(***************************************************************************)
\* "Output a status message at every N files"
iUpdateInterval == 1000

RECURSIVE LStripChars(_, _)
\* str.lstrip(chars): the leading characters that are in chars are dropped
LStripChars(s, chars) ==
  IF s # << >> /\ Head(s) \in chars THEN LStripChars(Tail(s), chars) ELSE s

\* x.stem.lstrip('PMID')
StemID(stem) == LStripChars(stem, { "P", "M", "I", "D" })

\* whether int(s) returns: s is a string of decimal digits
IsInt(s) == s # << >> /\ \A i \in DOMAIN s : s[i] \in Digits

\* shard directories of the archive root, and stems of the *.txt files of a shard
ShardNames == { << "0", "0", "1", "0" >>, << "0", "0", "2" >> }

Stems ==
  { << "P", "M", "I", "D", "2" >>,
    << "P", "M", "I", "D", "1", "0" >>,
    << "2" >>,
    << "p", "m", "i", "d", "4" >> }

\* the shard trees of at most MaxTreeFiles files: each shard directory with the set of its stems
Trees ==
  UNION { { t \in [ D -> SUBSET Stems ] :
              Cardinality({ x \in D \X Stems : x[2] \in t[x[1]] }) <= MaxTreeFiles } :
          D \in SUBSET ShardNames }

\* mutant: range(1, iNumerator + 1) in place of range(iNumerator)
Intervals_From1(n, d) == { (iNth * d) \div n : iNth \in 1..n }

\* line 80: Intervals = [iNth * iDenominator // iNumerator for iNth in range(iNumerator)]
Intervals(n, d) == { (iNth * d) \div n : iNth \in 0..(n - 1) }

\* line 109: iFilesInAll % iDenominator in Intervals
Keep(i) == (i % iDenominator) \in Intervals(iNumerator, iDenominator)

\* mutant: sorted() without the key, the paths compared as strings
FileOrders_ByName(S) == { Sorted(S) }

\* lines 95-96: the lists sorted(..., key=int of the stripped stem) can return for the stems S
\* of a directory; stems with equal keys keep the order glob() gave them, which is any order
FileOrders(S) ==
  { q \in IterationOrders(S) :
      \A i, j \in DOMAIN q : i < j => ParseInt(StemID(q[i])) <= ParseInt(StemID(q[j])) }

\* lines 113-125 for one retained file: what is written to strOut and sys.stderr, and where
\* control goes; every exception of open() and read() is caught by the bare except
SampleEffect(stem, file) ==
  LET sData == Strip(Lower(file.data))
      line == Format08d(ParseInt(StemID(stem))) \o << " " >> \o JoinWith(FindAll(sData), << " " >>) \o << "\n" >>
  IN  CASE file.state # "text" ->
             [ out |-> << >>, err |-> << [ msg |-> "Failure processing file", arg |-> stem ] >>,
               pc |-> "exit1" ]
        [] file.state = "text" /\ sData = << >> ->
             [ out |-> << >>, err |-> << [ msg |-> "Found empty file", arg |-> stem ] >>,
               pc |-> "file" ]
        [] OTHER ->
             [ out |-> << line >>, err |-> << >>, pc |-> "file" ]

\* lines 80-82: range() of a numerator that the command line gave as a string raises TypeError
PpsEntry ==
  /\ pps_pc = "entry"
  /\ pps_pc' = IF bNumeratorIsStr THEN "crash" ELSE "list_root"
  /\ pps_stderr' = IF bNumeratorIsStr
                     THEN Append(pps_stderr, [ msg |-> "Traceback", arg |-> << >> ])
                     ELSE pps_stderr
  /\ iFilesInAll' = 0
  /\ iProcessed' = 0
  /\ UNCHANGED notSample
  /\ UNCHANGED << pps_tree, iNumerator, bNumeratorIsStr, iDenominator, SubDirs, iNthDir, Files,
                  iNthFileInDir, pps_strOut, pps_seen >>

\* lines 83-91: the shard directories of the root, sorted, or the listing fails
PpsListRoot ==
  /\ pps_pc = "list_root"
  /\ \/ /\ SubDirs' = Sorted(DOMAIN pps_tree)
        /\ iNthDir' = 1
        /\ pps_pc' = "dir"
        /\ UNCHANGED pps_stderr
     \/ /\ pps_stderr' = Append(pps_stderr, [ msg |-> "Failure listing files in root directory", arg |-> << >> ])
        /\ pps_pc' = "exit1"
        /\ UNCHANGED << SubDirs, iNthDir >>
  /\ UNCHANGED notSample
  /\ UNCHANGED << pps_tree, iNumerator, bNumeratorIsStr, iDenominator, Files,
                  iNthFileInDir, iFilesInAll, iProcessed, pps_strOut, pps_seen >>

\* lines 92-101: the files of the next shard directory sorted by the number in their names;
\* a name without a number makes int() raise, which the bare except reports like a
\* directory that cannot be listed
PpsListDir ==
  /\ pps_pc = "dir"
  /\ iNthDir <= Len(SubDirs)
  /\ LET S == pps_tree[SubDirs[iNthDir]]
     IN  \/ /\ \A x \in S : IsInt(StemID(x))
            /\ Files' \in FileOrders(S)
            /\ iNthFileInDir' = 1
            /\ pps_pc' = "file"
            /\ UNCHANGED pps_stderr
         \/ /\ pps_stderr' = Append(pps_stderr, [ msg |-> "Failure listing files in directory", arg |-> SubDirs[iNthDir] ])
            /\ pps_pc' = "exit1"
            /\ UNCHANGED << Files, iNthFileInDir >>
  /\ UNCHANGED notSample
  /\ UNCHANGED << pps_tree, iNumerator, bNumeratorIsStr, iDenominator, SubDirs, iNthDir,
                  iFilesInAll, iProcessed, pps_strOut, pps_seen >>

\* lines 103-125 for the next file of the directory
PpsFile ==
  /\ pps_pc = "file"
  /\ iNthFileInDir <= Len(Files)
  /\ LET i == iFilesInAll + 1
         stem == Files[iNthFileInDir]
         status == IF i % iUpdateInterval = 0
                     THEN << [ msg |-> "Processing directory", arg |-> Decimal(iNthDir) ] >>
                     ELSE << >>
     IN  /\ iFilesInAll' = i
         /\ iNthFileInDir' = iNthFileInDir + 1
         /\ IF ~Keep(i)
              THEN /\ pps_stderr' = pps_stderr \o status
                   /\ pps_seen' = Append(pps_seen,
                        [ dir |-> SubDirs[iNthDir], stem |-> stem, kept |-> FALSE, wrote |-> FALSE ])
                   /\ UNCHANGED << iProcessed, pps_strOut, pps_pc >>
              ELSE \E file \in FileUniverse :
                     LET eff == SampleEffect(stem, file)
                     IN  /\ iProcessed' = iProcessed + 1
                         /\ pps_strOut' = pps_strOut \o eff.out
                         /\ pps_stderr' = pps_stderr \o status \o eff.err
                         /\ pps_pc' = eff.pc
                         /\ pps_seen' = Append(pps_seen,
                              [ dir |-> SubDirs[iNthDir], stem |-> stem, kept |-> TRUE,
                                wrote |-> eff.out # << >> ])
  /\ UNCHANGED notSample
  /\ UNCHANGED << pps_tree, iNumerator, bNumeratorIsStr, iDenominator, SubDirs, iNthDir, Files >>

\* the files of the directory are exhausted: on to the next directory
PpsDirDone ==
  /\ pps_pc = "file"
  /\ iNthFileInDir > Len(Files)
  /\ iNthDir' = iNthDir + 1
  /\ pps_pc' = "dir"
  /\ UNCHANGED notSample
  /\ UNCHANGED << pps_tree, iNumerator, bNumeratorIsStr, iDenominator, SubDirs, Files,
                  iNthFileInDir, iFilesInAll, iProcessed, pps_strOut, pps_stderr, pps_seen >>

\* line 126: the directories are exhausted; a line end is written to sys.stderr
PpsReturn ==
  /\ pps_pc = "dir"
  /\ iNthDir > Len(SubDirs)
  /\ pps_stderr' = Append(pps_stderr, [ msg |-> "\n", arg |-> << >> ])
  /\ pps_pc' = "returned"
  /\ UNCHANGED notSample
  /\ UNCHANGED << pps_tree, iNumerator, bNumeratorIsStr, iDenominator, SubDirs, iNthDir, Files,
                  iNthFileInDir, iFilesInAll, iProcessed, pps_strOut, pps_seen >>

\* prepare_pubmed_subset.py is not running
SampleIdle ==
  /\ pps_tree = << >>
  /\ iNumerator = 1
  /\ bNumeratorIsStr = FALSE
  /\ iDenominator = 1
  /\ pps_pc = "idle"
  /\ SubDirs = << >>
  /\ iNthDir = 1
  /\ Files = << >>
  /\ iNthFileInDir = 1
  /\ iFilesInAll = 0
  /\ iProcessed = 0
  /\ pps_strOut = << >>
  /\ pps_stderr = << >>
  /\ pps_seen = << >>

\* build_subset is called with integers for the numerator and the denominator
SampleInit ==
  /\ pps_tree \in Trees
  /\ iNumerator \in 1..MaxDenominator
  /\ bNumeratorIsStr = FALSE
  /\ iDenominator \in 1..MaxDenominator
  /\ pps_pc = "entry"
  /\ SubDirs = << >>
  /\ iNthDir = 1
  /\ Files = << >>
  /\ iNthFileInDir = 1
  /\ iFilesInAll = 0
  /\ iProcessed = 0
  /\ pps_strOut = << >>
  /\ pps_stderr = << >>
  /\ pps_seen = << >>

\* neither build_topic_model.py nor AbstractsFromIDs.py is at its start
StartIdle ==
  /\ sStopWordsFile = [ state |-> "none", lines |-> << >> ]
  /\ cfg_stderr = << >>
  /\ cfg_error = "none"

(***************************************************************************)
(* The start of the three programs that take a configuration: the command   *)
(* line is read and the files it names are opened before the work begins.   *)
(* cfg_error names the configuration error the start has met, cfg_stderr    *)
(* holds what the start of build_topic_model.py and AbstractsFromIDs.py     *)
(* wrote to sys.stderr.                                                     *)
(***************************************************************************)
\* the lines a readable stopword file can hold
StopWordFileLines == { << >>, << T_the >>, << T_empty, T_ab >> }

\* what Path(sStopWordsFile).open() and read() can meet
StopWordFiles ==
  { [ state |-> "missing", lines |-> << >> ],
    [ state |-> "noperm", lines |-> << >> ],
    [ state |-> "undecodable", lines |-> << >> ] }
  \cup { [ state |-> "text", lines |-> l ] : l \in StopWordFileLines }

\* what the command line says about the output of build_topic_model.py
TopicArgs ==
  { [ sOutFileName |-> "stdout", bExcel |-> FALSE, openable |-> TRUE ],
    [ sOutFileName |-> "stdout", bExcel |-> TRUE, openable |-> TRUE ],
    [ sOutFileName |-> "file", bExcel |-> FALSE, openable |-> TRUE ],
    [ sOutFileName |-> "file", bExcel |-> FALSE, openable |-> FALSE ] }

\* GetCmdLineParameters of build_topic_model.py, lines 144-161: Excel output to stdout is
\* refused with exit(1); open() of the output file is not guarded, its exception ends the
\* program with a traceback
TopicGetCmdLineParameters ==
  /\ pc = "main"
  /\ \E args \in TopicArgs :
       IF args.sOutFileName = "stdout" /\ args.bExcel
         THEN /\ cfg_stderr' = Append(cfg_stderr, "Excel output incompatible with stdout.")
              /\ cfg_error' = "excel to stdout"
              /\ pc' = "exit1"
              /\ err' = err
         ELSE IF ~args.openable
           THEN /\ cfg_stderr' = Append(cfg_stderr, "Traceback")
                /\ cfg_error' = "output"
                /\ pc' = "crash"
                /\ err' = "OSError"
           ELSE /\ pc' = "stopwords"
                /\ UNCHANGED << cfg_stderr, cfg_error, err >>
  /\ UNCHANGED << subsetVars, importVars, sampleVars, sStopWordsFile >>
  /\ UNCHANGED << PathList, iMaxAbstracts, iMinWordLength, StopWords, tl_ticks, iFile, iLine,
                  iAbstract, iAbstractsPreviousFiles, Words, Docs, WordsInCorpus, matrixWordDoc,
                  csc, visitedGwd, visitedBm, tlVars, run, firstRun >>

\* mutant: the except branch reports the file and returns without exit(1)
ReadStopwordsEffect_NoExit(file) ==
  CASE file.state \in { "missing", "noperm" } ->
         [ StopWords |-> {}, stderr |-> << "Unable to open stop words file" >>,
           error |-> "stopwords", pc |-> "gwd_file", err |-> "none" ]
    [] file.state = "undecodable" ->
         [ StopWords |-> {}, stderr |-> << "Traceback" >>,
           error |-> "stopwords", pc |-> "crash", err |-> "UnicodeDecodeError" ]
    [] OTHER ->
         [ StopWords |-> Range(file.lines), stderr |-> << >>,
           error |-> "none", pc |-> "gwd_file", err |-> "none" ]

\* read_stopwords, lines 198-206: the set of the file's lines; FileNotFoundError,
\* PermissionError and IOError are reported and end the program with exit(1); a file that
\* is not UTF-8 raises UnicodeDecodeError, which the except clause does not name
ReadStopwordsEffect(file) ==
  CASE file.state \in { "missing", "noperm" } ->
         [ StopWords |-> {}, stderr |-> << "Unable to open stop words file" >>,
           error |-> "stopwords", pc |-> "exit1", err |-> "none" ]
    [] file.state = "undecodable" ->
         [ StopWords |-> {}, stderr |-> << "Traceback" >>,
           error |-> "stopwords", pc |-> "crash", err |-> "UnicodeDecodeError" ]
    [] OTHER ->
         [ StopWords |-> Range(file.lines), stderr |-> << >>,
           error |-> "none", pc |-> "gwd_file", err |-> "none" ]

\* MAIN lines 366-367: StopWords = read_stopwords(sStopWordsFName), then the glob
TopicReadStopwords ==
  /\ pc = "stopwords"
  /\ LET eff == ReadStopwordsEffect(sStopWordsFile)
     IN  /\ StopWords' = eff.StopWords
         /\ cfg_stderr' = cfg_stderr \o eff.stderr
         /\ cfg_error' = eff.error
         /\ pc' = eff.pc
         /\ err' = eff.err
  /\ UNCHANGED << subsetVars, importVars, sampleVars, sStopWordsFile >>
  /\ UNCHANGED << PathList, iMaxAbstracts, iMinWordLength, tl_ticks, iFile, iLine,
                  iAbstract, iAbstractsPreviousFiles, Words, Docs, WordsInCorpus, matrixWordDoc,
                  csc, visitedGwd, visitedBm, tlVars, run, firstRun >>

\* what the command line and the file system give GetCmdLineParameters of AbstractsFromIDs.py
SubsetArgs ==
  [ excel : BOOLEAN, rootIsDir : BOOLEAN, out : { "stdout", "file", "unopenable" },
    errOut : { "stderr", "file", "unopenable" } ]

\* GetCmdLineParameters of AbstractsFromIDs.py, lines 74-108: the spreadsheet is read, the
\* archive root is tested with is_dir(), the output and the error output are opened; the
\* first of these that fails is reported on sys.stderr and ends the program with exit(1)
SubGetCmdLineParameters ==
  /\ sub_pc = "main"
  /\ \E args \in SubsetArgs :
       LET failed ==
             IF ~args.excel THEN "spreadsheet"
             ELSE IF ~args.rootIsDir THEN "root"
             ELSE IF args.out = "unopenable" THEN "output"
             ELSE IF args.errOut = "unopenable" THEN "error output"
             ELSE "none"
           report ==
             CASE failed = "spreadsheet" -> << "Reading", "Unable to read file as an Excel file" >>
               [] failed = "root" -> << "Reading", "Done reading", "Directory does not appear to exist." >>
               [] failed = "output" -> << "Reading", "Done reading", "Failed to open output file" >>
               [] failed = "error output" -> << "Reading", "Done reading", "Failed to open error file" >>
               [] OTHER -> << "Reading", "Done reading" >>
       IN  /\ cfg_error' = failed
           /\ cfg_stderr' = cfg_stderr \o report
           /\ sub_pc' = IF failed = "none" THEN "list_root" ELSE "exit1"
  /\ UNCHANGED << topicVars, importVars, sampleVars, sStopWordsFile >>
  /\ UNCHANGED << DataFrame, sub_iMaxAbstracts, iRow, strOut, strErr, processed >>

\* BuildSubset, lines 132-137: the archive root is listed; a failure is reported on strErr
\* and ends the program with exit(1)
SubsetListRoot ==
  /\ sub_pc = "list_root"
  /\ \/ /\ sub_pc' = "loop"
        /\ UNCHANGED strErr
     \/ /\ strErr' = Append(strErr, [ msg |-> "Failure listing files in root directory", arg |-> << >> ])
        /\ sub_pc' = "exit1"
  /\ UNCHANGED << topicVars, importVars, sampleVars, startVars >>
  /\ UNCHANGED << DataFrame, sub_iMaxAbstracts, iRow, strOut, processed >>

\* what the command line and the file system give GetCmdLineParameters of
\* prepare_pubmed_subset.py; bGiven: the numerator is given with -n
SampleArgs ==
  [ rootIsDir : BOOLEAN, out : { "stdout", "file", "unopenable" }, bGiven : BOOLEAN ]

\* GetCmdLineParameters of prepare_pubmed_subset.py, lines 44-61: the root is tested with
\* is_dir() and the output is opened; the module does not import codecs, so the stdout
\* branch raises NameError inside the try and is reported like a file that cannot be
\* opened; -n has no type, a numerator given on the command line stays a string
PpsGetCmdLineParameters ==
  /\ pps_pc = "main"
  /\ \E args \in SampleArgs :
       LET failed ==
             IF ~args.rootIsDir THEN "root"
             ELSE IF args.out = "unopenable" THEN "output"
             ELSE IF args.out = "stdout" THEN "codecs"
             ELSE "none"
           report ==
             CASE failed = "root" -> << [ msg |-> "Directory does not appear to exist.", arg |-> << >> ] >>
               [] failed \in { "output", "codecs" } ->
                    << [ msg |-> "Failed to open output file", arg |-> << >> ] >>
               [] OTHER -> << >>
       IN  /\ args.bGiven \/ iNumerator = 1
           /\ bNumeratorIsStr' = args.bGiven
           /\ cfg_error' = failed
           /\ pps_stderr' = pps_stderr \o report
           /\ pps_pc' = IF failed = "none" THEN "entry" ELSE "exit1"
  /\ UNCHANGED << topicVars, subsetVars, importVars, sStopWordsFile, cfg_stderr >>
  /\ UNCHANGED << pps_tree, iNumerator, iDenominator, SubDirs, iNthDir, Files,
                  iNthFileInDir, iFilesInAll, iProcessed, pps_strOut, pps_seen >>

\* build_topic_model.py is started: the corpus files and the stopword file are as they are
TopicMainInit ==
  /\ \/ /\ PathList \in TraversalCorpora
        /\ iMinWordLength = DefaultMinWordLength
        /\ sStopWordsFile \in { f \in StopWordFiles : f.lines = << >> }
        /\ tl_ticks = SlowTicks
     \/ /\ PathList \in VocabCorpora
        /\ iMinWordLength \in 1..MaxMinWordLength
        /\ sStopWordsFile \in { f \in StopWordFiles : f.state = "text" }
        /\ tl_ticks = SlowTicks
  /\ StopWords = {}
  /\ iMaxAbstracts \in 0..MaxCap
  /\ pc = "main"
  /\ err = "none"
  /\ iFile = 1
  /\ iLine = 1
  /\ iAbstract = Unbound
  /\ iAbstractsPreviousFiles = 0
  /\ Words = {}
  /\ Docs = << >>
  /\ WordsInCorpus = << >>
  /\ matrixWordDoc = << >>
  /\ csc = [ shape |-> << 0, 0 >>, cols |-> << >> ]
  /\ visitedGwd = << >>
  /\ visitedBm = << >>
  /\ tl_pos = "start"
  /\ tl_since = 0
  /\ tl_logged = FALSE
  /\ tl_gap = 0
  /\ tl_emitGap = 0
  /\ tl_err = "none"
  /\ run = 1
  /\ firstRun = [ err |-> "unset", Words |-> << >>, Docs |-> << >> ]

\* AbstractsFromIDs.py is started
SubsetMainInit ==
  /\ DataFrame \in UNION { [1..n -> IDUniverse] : n \in 0..MaxRows }
  /\ sub_iMaxAbstracts \in 0..MaxCap
  /\ sub_pc = "main"
  /\ iRow = 0
  /\ strOut = << >>
  /\ strErr = << >>
  /\ processed = << >>

\* prepare_pubmed_subset.py is started
SampleMainInit ==
  /\ pps_tree \in Trees
  /\ iNumerator \in 1..MaxDenominator
  /\ bNumeratorIsStr = FALSE
  /\ iDenominator \in 1..MaxDenominator
  /\ pps_pc = "main"
  /\ SubDirs = << >>
  /\ iNthDir = 1
  /\ Files = << >>
  /\ iNthFileInDir = 1
  /\ iFilesInAll = 0
  /\ iProcessed = 0
  /\ pps_strOut = << >>
  /\ pps_stderr = << >>
  /\ pps_seen = << >>

(***************************************************************************)
(* The runs of build_topic_model.py.                                        *)
(***************************************************************************)
\* get_words_and_documents is entered, lines 235-239, nothing of build_matrix exists yet
TopicEntered ==
  /\ pc = "gwd_file"
  /\ err = "none"
  /\ iFile = 1
  /\ iLine = 1
  /\ iAbstract = Unbound
  /\ iAbstractsPreviousFiles = 0
  /\ Words = {}
  /\ Docs = << >>
  /\ WordsInCorpus = << >>
  /\ matrixWordDoc = << >>
  /\ csc = [ shape |-> << 0, 0 >>, cols |-> << >> ]
  /\ visitedGwd = << >>
  /\ visitedBm = << >>
  /\ tl_pos = "start"
  /\ tl_since = 0
  /\ tl_logged = FALSE
  /\ tl_gap = 0
  /\ tl_emitGap = 0
  /\ tl_err = "none"
  /\ run = 1
  /\ firstRun = [ err |-> "unset", Words |-> << >>, Docs |-> << >> ]

\* a run of build_topic_model.py on a traversal corpus or on a vocabulary corpus
TopicInit ==
  /\ \/ /\ PathList \in TraversalCorpora
        /\ iMinWordLength = DefaultMinWordLength
        /\ StopWords = {}
     \/ /\ PathList \in VocabCorpora
        /\ iMinWordLength \in 1..MaxMinWordLength
        /\ StopWords \in StopWordsUniverse
  /\ tl_ticks = SlowTicks
  /\ iMaxAbstracts \in 0..MaxCap
  /\ TopicEntered

\* a run of build_topic_model.py on a clock corpus, the clock advancing by any of ClockTicks
ClockInit ==
  /\ PathList \in ClockCorpora
  /\ iMinWordLength = DefaultMinWordLength
  /\ StopWords = {}
  /\ tl_ticks = ClockTicks
  /\ iMaxAbstracts \in 0..MaxCap
  /\ TopicEntered

GwdNext ==
  \/ GwdSkipRemaining
  \/ GwdReturn
  \/ GwdOpenFile
  \/ GwdCapBreak
  \/ GwdReadLine
  \/ GwdEndOfFile

BmNext ==
  \/ BmInit
  \/ BmOpenFile
  \/ BmReturn
  \/ BmCapBreak
  \/ BmReadLine
  \/ BmEndOfFile

Init == TopicInit /\ SubsetIdle /\ ImportIdle /\ SampleIdle /\ StartIdle

\* MAIN of build_topic_model.py: get_words_and_documents, then build_matrix
Next == GwdNext \/ BmNext

Spec == Init /\ [][Next]_vars

\* get_words_and_documents run twice on the same input
RerunNext == GwdNext \/ GwdRerun

SpecRerun == Init /\ [][RerunNext]_vars

\* MAIN run twice on a clock corpus
InitClock == ClockInit /\ SubsetIdle /\ ImportIdle /\ SampleIdle /\ StartIdle

ClockNext == GwdNext \/ BmNext \/ MainRerun

SpecClock == InitClock /\ [][ClockNext]_vars

\* build_topic_model.py is not running
TopicIdle ==
  /\ PathList = << >>
  /\ iMaxAbstracts = 0
  /\ iMinWordLength = DefaultMinWordLength
  /\ StopWords = {}
  /\ tl_ticks = {}
  /\ pc = "idle"
  /\ err = "none"
  /\ iFile = 1
  /\ iLine = 1
  /\ iAbstract = Unbound
  /\ iAbstractsPreviousFiles = 0
  /\ Words = {}
  /\ Docs = << >>
  /\ WordsInCorpus = << >>
  /\ matrixWordDoc = << >>
  /\ csc = [ shape |-> << 0, 0 >>, cols |-> << >> ]
  /\ visitedGwd = << >>
  /\ visitedBm = << >>
  /\ tl_pos = "start"
  /\ tl_since = 0
  /\ tl_logged = FALSE
  /\ tl_gap = 0
  /\ tl_emitGap = 0
  /\ tl_err = "none"
  /\ run = 1
  /\ firstRun = [ err |-> "unset", Words |-> << >>, Docs |-> << >> ]

\* BuildSubset of AbstractsFromIDs.py
SubsetNext == SubsetStop \/ SubsetEnd \/ SubsetRow

InitSubset == SubsetInit /\ TopicIdle /\ ImportIdle /\ SampleIdle /\ StartIdle

\* importAbstracts.py, run up to MaxRuns times on one input and one index file
ImportNext == ImpGetCmdLineParameters \/ ImpProcessNextAbstract \/ ImpEndOfInput \/ ImpRunAgain

InitImport == ImportInit /\ TopicIdle /\ SubsetIdle /\ SampleIdle /\ StartIdle

SpecImport == InitImport /\ [][ImportNext]_vars

SpecSubset == InitSubset /\ [][SubsetNext]_vars

\* build_subset of prepare_pubmed_subset.py
SampleNext == PpsEntry \/ PpsListRoot \/ PpsListDir \/ PpsFile \/ PpsDirDone \/ PpsReturn

InitSample == SampleInit /\ TopicIdle /\ SubsetIdle /\ ImportIdle /\ StartIdle

SpecSample == InitSample /\ [][SampleNext]_vars

\* one of the three programs is started from its command line
InitStartup ==
  /\ \/ TopicMainInit /\ SubsetIdle /\ SampleIdle
     \/ TopicIdle /\ SubsetMainInit /\ SampleIdle
     \/ TopicIdle /\ SubsetIdle /\ SampleMainInit
  /\ ImportIdle
  /\ cfg_stderr = << >>
  /\ cfg_error = "none"
  /\ (pc = "idle" => sStopWordsFile = [ state |-> "none", lines |-> << >> ])

StartupNext ==
  \/ TopicGetCmdLineParameters
  \/ TopicReadStopwords
  \/ GwdNext
  \/ BmNext
  \/ SubGetCmdLineParameters
  \/ SubsetListRoot
  \/ SubsetNext
  \/ PpsGetCmdLineParameters
  \/ SampleNext

SpecStartup == InitStartup /\ [][StartupNext]_vars

(***************************************************************************)
(* Properties of get_words_and_documents and build_matrix.                  *)
(***************************************************************************)
\* the raw line at a visited place << file, line >>
LineAt(v) == PathList[v[1]][v[2]]

\* the candidate tokens of the lines the first pass visited: every field after the ID
VisitedTokens == UNION { Range(Tail(ValuesOf(LineAt(visitedGwd[n])))) : n \in DOMAIN visitedGwd }

\* a whole token of the shape: optional sign, digits/periods/commas, optional percent sign
C1_IsNumber(sToken) ==
  LET unsigned == IF sToken # << >> /\ Head(sToken) \in { "+", "-" } THEN Tail(sToken) ELSE sToken
      body == IF unsigned # << >> /\ unsigned[Len(unsigned)] = "%"
                THEN SubSeq(unsigned, 1, Len(unsigned) - 1) ELSE unsigned
  IN  /\ body # << >>
      /\ \A i \in DOMAIN body : body[i] \in Digits \cup { ".", "," }

\* the five filters as the vocabulary contract states them
C1_PassesFiveFilters(sToken) ==
  /\ sToken \notin StopWords
  /\ ~Contains(sToken, << "-", "-" >>)
  /\ ~StartsWith(sToken, << "-" >>)
  /\ ~C1_IsNumber(sToken)
  /\ Len(sToken) >= iMinWordLength

\* a list of strings in strictly ascending order
StrictlyAscending(q) == \A i \in 1..(Len(q) - 1) : LexLess(q[i], q[i + 1])

\* C1: the returned vocabulary is strictly ascending and holds exactly the visited tokens
\* that pass the five filters, a number being a token that is a number as a whole.
\* The code drops every token that only starts like a number ('1a'), so this fails.
C1_VocabularyIsFilteredSet ==
  pc = "returned" =>
    /\ StrictlyAscending(WordsInCorpus)
    /\ Range(WordsInCorpus) = { w \in VisitedTokens : C1_PassesFiveFilters(w) }

\* C2: the axis never holds more than iMaxAbstracts document IDs.
\* The code compares the index of a line, not the count of lines, with `>`, and hands the
\* next file the index of the last line read, so this fails.
C2_AxisWithinCap == Len(Docs) <= iMaxAbstracts

\* C5: once iMaxAbstracts documents are on the axis, no line of a later file is processed:
\* every document after the iMaxAbstracts-th comes from the file of the iMaxAbstracts-th.
\* The code reads on into later files, so this fails.
C5_NoLaterFileAfterCap ==
  iMaxAbstracts >= 1 =>
    \A n \in DOMAIN visitedGwd :
      n > iMaxAbstracts => visitedGwd[n][1] = visitedGwd[iMaxAbstracts][1]

\* whether build_matrix is running or has returned
InSecondPass == pc \in { "bm_file", "bm_line", "done" }

\* C4: build_matrix visits the lines get_words_and_documents visited, in the same order
\* and up to the same stopping point, and its N-th line carries the ID at position N of the axis.
C4_SameTraversal ==
  InSecondPass =>
    /\ Len(visitedBm) <= Len(visitedGwd)
    /\ \A n \in DOMAIN visitedBm :
         /\ visitedBm[n] = visitedGwd[n]
         /\ ValuesOf(LineAt(visitedBm[n]))[1] = Docs[n]
    /\ pc = "done" => visitedBm = visitedGwd

\* a file with lines of which the first pass visited none: it was skipped as a whole
SkippedFile(f) ==
  /\ Len(PathList[f]) > 0
  /\ \A n \in DOMAIN visitedGwd : visitedGwd[n][1] # f

\* C4 witness: both passes are over, lines were visited, and the first pass skipped a whole file
C4_Witness ==
  /\ pc = "done"
  /\ Len(visitedBm) >= 1
  /\ \E f \in DOMAIN PathList : SkippedFile(f)

RECURSIVE SumOver(_, _)
\* the sum of f[x] over the members x of S
SumOver(S, f) ==
  IF S = {} THEN 0
  ELSE LET x == CHOOSE y \in S : TRUE IN f[x] + SumOver(S \ {x}, f)

\* the value the returned matrix holds at row r, column c
CscAt(r, c) ==
  IF \E e \in csc.cols[c] : e[1] = r
    THEN (CHOOSE e \in csc.cols[c] : e[1] = r)[2]
    ELSE 0

Rows == 0..(csc.shape[1] - 1)
Columns == 0..(csc.shape[2] - 1)

RowSum(r) == SumOver(Columns, [ c \in Columns |-> CscAt(r, c) ])
ColumnSum(c) == SumOver(Rows, [ r \in Rows |-> CscAt(r, c) ])

\* the occurrences of sWord among the tokens of the n-th visited line
OccurrencesOn(n, sWord) == CountOf(ValuesOf(LineAt(visitedGwd[n])), sWord)

\* the occurrences of sWord over all visited lines
TotalOccurrences(sWord) ==
  SumOver(DOMAIN visitedGwd, [ n \in DOMAIN visitedGwd |-> OccurrencesOn(n, sWord) ])

\* the tokens of the n-th visited line that are vocabulary words, counted with repetition
VocabularyTokensOn(n) ==
  LET Tokens == ValuesOf(LineAt(visitedGwd[n]))
  IN  Cardinality({ i \in 2..Len(Tokens) : Tokens[i] \in Range(WordsInCorpus) })

\* every row sum is the word's total count and every column sum the line's vocabulary tokens
SumsConsistent ==
  /\ \A r \in Rows : RowSum(r) = TotalOccurrences(WordsInCorpus[r + 1])
  /\ \A c \in Columns : ColumnSum(c) = VocabularyTokensOn(c + 1)

\* the visited lines carry pairwise distinct document IDs
DistinctIDs == \A i, j \in DOMAIN Docs : i # j => Docs[i] # Docs[j]

\* C3 as stated: for every input the row and column sums of the returned matrix are consistent.
\* Two visited lines with one ID share the last column of that ID, so this fails.
C3_SumsConsistentAlways == pc = "done" => SumsConsistent

\* C3 amended: when the visited lines carry pairwise distinct IDs, every row sum is the
\* word's total occurrence count and every column sum the line's count of vocabulary tokens.
C3_SumsConsistentDistinctIDs == (pc = "done" /\ DistinctIDs) => SumsConsistent

\* C3 witness: two documents with distinct IDs, a word counted twice on one line
C3_Witness ==
  /\ pc = "done"
  /\ DistinctIDs
  /\ Len(Docs) >= 2
  /\ \E r \in Rows, c \in Columns : CscAt(r, c) >= 2
  /\ \E r \in Rows : RowSum(r) >= 3

C13_CeilingEnforced ==
  (InSecondPass /\ Len(Docs) > iMaxAbstracts) => (pc = "crash" /\ err = "CapacityExceeded")

\* the axis positions, counted from 1, that carry the ID of position n
C17_Occurrences(n) == { m \in DOMAIN Docs : Docs[m] = Docs[n] }

\* the count of sWord on the latest of the lines at the positions P that holds it, 0 if none does
C17_LatestCount(P, sWord) ==
  LET holders == { m \in P : OccurrencesOn(m, sWord) > 0 }
  IN  IF holders = {} THEN 0
      ELSE OccurrencesOn(CHOOSE m \in holders : \A x \in holders : x <= m, sWord)

\* C17: when one ID is at the axis positions i < j, j being its last, the axis holds both
\* entries, the matrix has a column for each, column i is all zero, and column j holds for
\* every word the count of the later line if the word is on it, else the count of the
\* earlier line that holds it.
C17_DuplicateIDs ==
  pc = "done" =>
    /\ Len(Docs) = Len(visitedGwd)
    /\ csc.shape[2] = Len(Docs)
    /\ \A i, j \in DOMAIN Docs :
         (i < j /\ Docs[i] = Docs[j] /\ \A m \in C17_Occurrences(j) : m <= j) =>
           /\ \A r \in Rows : CscAt(r, i - 1) = 0
           /\ \A r \in Rows :
                CscAt(r, j - 1) = C17_LatestCount(C17_Occurrences(j), WordsInCorpus[r + 1])

\* C17 witness: an ID on two lines; a word on both lines has the count of the second line,
\* which differs from that of the first, and a word on the first line only keeps its count
C17_Witness ==
  /\ pc = "done"
  /\ \E i, j \in DOMAIN Docs, r, q \in Rows :
       /\ i < j
       /\ C17_Occurrences(j) = { i, j }
       /\ OccurrencesOn(i, WordsInCorpus[r + 1]) = 1
       /\ OccurrencesOn(j, WordsInCorpus[r + 1]) = 2
       /\ CscAt(r, j - 1) = 2
       /\ OccurrencesOn(i, WordsInCorpus[q + 1]) = 1
       /\ OccurrencesOn(j, WordsInCorpus[q + 1]) = 0
       /\ CscAt(q, j - 1) = 1
       /\ CscAt(r, i - 1) = 0
       /\ csc.shape[2] = 2

\* the line either pass is about to process holds nothing but whitespace
C18_AtBlankLine ==
  /\ pc \in { "gwd_line", "bm_line" }
  /\ iLine <= Len(CurFile)
  /\ ~(EnumIndex > iMaxAbstracts)
  /\ \A i \in DOMAIN CurLine : IsSpace(CurLine[i])

\* C18: a line of nothing but whitespace raises no error in either pass; the first pass
\* appends the empty string to the axis, gives the line its index (a slot under the cap)
\* and adds no word; the second pass writes no cell.
C18_BlankLine ==
  [][ C18_AtBlankLine =>
        /\ pc' = pc
        /\ err' = err
        /\ iAbstract' = EnumIndex
        /\ iLine' = iLine + 1
        /\ Words' = Words
        /\ matrixWordDoc' = matrixWordDoc
        /\ pc = "gwd_line" => Docs' = Append(Docs, << >>)
        /\ pc = "bm_line" => Docs' = Docs ]_vars

\* C18 witness: both passes are over, an empty and a whitespace-only line were visited, the
\* axis holds the empty ID at their places and their columns are empty
C18_Witness ==
  /\ pc = "done"
  /\ \E n \in DOMAIN visitedBm :
       /\ Len(LineAt(visitedBm[n])) > 1
       /\ \A i \in DOMAIN LineAt(visitedBm[n]) : IsSpace(LineAt(visitedBm[n])[i])
       /\ Docs[n] = << >>
       /\ csc.cols[n - 1] = {}
  /\ Len(Docs) >= 2
  /\ Len(WordsInCorpus) >= 1

\* the document ID and the tokens of the n-th line build_matrix visited
C19_Tokens(n) == ValuesOf(LineAt(visitedBm[n]))

\* C19: given the lists of the first pass, build_matrix raises no KeyError: the ID it
\* looks up for a line is in the axis index, every word it counts is in the vocabulary
\* index, the cells it writes are inside the matrix, and it leaves both lists as they were.
C19_NoLookupFailure ==
  [][ /\ InSecondPass' =>
           /\ err' # "KeyError"
           /\ matrixWordDoc' # matrixWordDoc => DOMAIN matrixWordDoc' = Cells'
      /\ InSecondPass =>
           /\ pc' # "crash"
           /\ WordsInCorpus' = WordsInCorpus
           /\ Docs' = Docs
           /\ Words' = Words
           /\ \A n \in DOMAIN visitedBm' \ DOMAIN visitedBm :
                LET Tokens == ValuesOf(LineAt(visitedBm'[n]))
                IN  /\ Tokens[1] \in Range(Docs)
                    /\ DocIndex[Tokens[1]] < Len(Docs)
                    /\ \A w \in CountedWords(Tokens) : WordIndex[w] < Len(WordsInCorpus) ]_vars

\* C19 witness: build_matrix returned after a line with a token that is not in the vocabulary
C19_Witness ==
  /\ pc = "done"
  /\ Len(WordsInCorpus) >= 1
  /\ \E n \in DOMAIN visitedBm :
       \E k \in 2..Len(C19_Tokens(n)) : C19_Tokens(n)[k] \notin Range(WordsInCorpus)

(***************************************************************************)
(* Properties of BuildSubset.                                               *)
(***************************************************************************)
\* the digit characters of an identifier, in order
C7_DigitsOf(PubMedID) == SelectSeq(PubMedID, LAMBDA c : c \in Digits)

\* the digit string without its last 4 digits, left-padded with '0' to at least 4 characters
C7_Shard(PubMedID) ==
  LET digits == C7_DigitsOf(PubMedID)
      kept == IF Len(digits) > 4 THEN SubSeq(digits, 1, Len(digits) - 4) ELSE << >>
      pad == IF Len(kept) < 4 THEN 4 - Len(kept) ELSE 0
  IN  [ i \in 1..(pad + Len(kept)) |-> IF i <= pad THEN "0" ELSE kept[i - pad] ]

C8_Missing(e) == e.file.state = "missing"

\* the archive file exists and holds nothing but whitespace
C8_Empty(e) ==
  e.file.state = "text" /\ \A i \in DOMAIN e.file.data : IsSpace(e.file.data[i])

\* the archive file exists and cannot be opened or read
C8_Unreadable(e) == e.file.state \in { "noperm", "readfail" }

\* the processed identifiers that satisfy P
C8_Count(P(_)) == Cardinality({ k \in DOMAIN processed : P(processed[k]) })

\* the messages on strErr that start with msg
C8_Messages(msg) == Cardinality({ i \in DOMAIN strErr : strErr[i].msg = msg })

\* a line of the corpus format: at least 8 digits, a space, and a line end at the end
C8_IsCorpusLine(line) ==
  /\ Len(line) >= 10
  /\ \A i \in 1..8 : line[i] \in Digits
  /\ \E i \in 9..Len(line) : line[i] = " "
  /\ line[Len(line)] = "\n"

\* C8: a missing file and an empty file are each reported on the error stream, give no
\* corpus line and leave the loop running; an unreadable file ends the run with failure
\* before any later identifier; the output holds corpus lines only and the error stream
\* diagnostics only.
C8_FailurePolicy ==
  /\ \A k \in DOMAIN processed :
       /\ (C8_Missing(processed[k]) \/ C8_Empty(processed[k])) =>
            (k = Len(processed) => sub_pc \in { "loop", "returned" })
       /\ C8_Unreadable(processed[k]) =>
            (k = Len(processed) /\ sub_pc \in { "exit1", "crash" })
  /\ sub_pc \in { "exit1", "crash" } =>
       (processed # << >> /\ C8_Unreadable(processed[Len(processed)]))
  /\ C8_Messages("Unable to find file") = C8_Count(C8_Missing)
  /\ C8_Messages("Found empty file") = C8_Count(C8_Empty)
  /\ Len(strOut) =
       Len(processed) - C8_Count(C8_Missing) - C8_Count(C8_Empty) - C8_Count(C8_Unreadable)
  /\ \A i \in DOMAIN strOut : C8_IsCorpusLine(strOut[i])
  /\ \A i \in DOMAIN strErr :
       strErr[i].msg \in { "Unable to find file", "Found empty file",
                           "Failure processing file", "Stopping" }

\* C8 witness: a missing or empty file was reported and passed over, and a later unreadable
\* file ended the run
C8_Witness ==
  /\ Len(processed) >= 2
  /\ C8_Missing(processed[1]) \/ C8_Empty(processed[1])
  /\ C8_Unreadable(processed[Len(processed)])
  /\ sub_pc \in { "exit1", "crash" }
  /\ \E i \in DOMAIN strErr : strErr[i].msg \in { "Unable to find file", "Found empty file" }

\* a line of an 8-digit-or-longer decimal ID, one space, and one or more non-empty tokens
\* separated by single spaces
C20_WellFormedLine(line) ==
  LET fields == Split(SubSeq(line, 1, Len(line) - 1), " ")
  IN  /\ line # << >>
      /\ line[Len(line)] = "\n"
      /\ Len(fields) >= 2
      /\ Len(fields[1]) >= 8
      /\ \A i \in DOMAIN fields[1] : fields[1][i] \in Digits
      /\ \A n \in 2..Len(fields) : fields[n] # << >>

\* C20: every line BuildSubset writes is the zero-padded identifier, one space, and one or
\* more non-empty tokens separated by single spaces.
\* A file whose text holds no word character and no hyphen gives a line that ends after
\* the space, with no token, so this fails.
C20_LinesWellFormed == \A i \in DOMAIN strOut : C20_WellFormedLine(strOut[i])

(***************************************************************************)
(* Properties of build_subset of prepare_pubmed_subset.py.                  *)
(***************************************************************************)
\* the global positions, counted from 1, of the files that passed the keep test
C11_Retained == { k \in DOMAIN pps_seen : pps_seen[k].kept }

\* C11: with 1 <= numerator <= denominator, every block of denominator consecutive global
\* positions retains exactly numerator files; with numerator 1 the retained files are
\* those at the positions d, 2d, 3d, ..., so m*d files give m retained files, d apart.
C11_EvenSampling ==
  (1 <= iNumerator /\ iNumerator <= iDenominator) =>
    /\ \A p \in 0..(Len(pps_seen) - iDenominator) :
         Cardinality(C11_Retained \cap ((p + 1)..(p + iDenominator))) = iNumerator
    /\ iProcessed = Cardinality(C11_Retained)
    /\ iNumerator = 1 =>
         /\ C11_Retained = { k \in DOMAIN pps_seen : k % iDenominator = 0 }
         /\ iProcessed = Len(pps_seen) \div iDenominator

\* C11 witness: numerator 1 and denominator 2 over 4 files retained the files at positions 2 and 4
C11_Witness ==
  /\ pps_pc = "returned"
  /\ iNumerator = 1
  /\ iDenominator = 2
  /\ Len(pps_seen) = 4
  /\ C11_Retained = { 2, 4 }
  /\ iProcessed = 2

\* the number embedded in the name of the file at global position k
C12_ID(k) == ParseInt(StemID(pps_seen[k].stem))

\* the files that were written to the output, in the order they were met
C12_Written == SelectSeq(pps_seen, LAMBDA f : f.wrote)

\* C12: the counter of the keep test is the global position of the file, over all shards;
\* the files are met, and the retained ones written, in lexicographic order of the shard
\* name and within a shard in ascending order of the number in the file name.
C12_GlobalCounterAndOrder ==
  /\ iFilesInAll = Len(pps_seen)
  /\ \A k \in DOMAIN pps_seen :
       pps_seen[k].kept <=>
         \E iNth \in 0..(iNumerator - 1) : k % iDenominator = (iNth * iDenominator) \div iNumerator
  /\ \A a, b \in DOMAIN pps_seen :
       a < b =>
         /\ pps_seen[a].dir = pps_seen[b].dir \/ LexLess(pps_seen[a].dir, pps_seen[b].dir)
         /\ pps_seen[a].dir = pps_seen[b].dir => C12_ID(a) <= C12_ID(b)
  /\ Len(pps_strOut) = Len(C12_Written)
  /\ \A n \in DOMAIN pps_strOut :
       SubSeq(pps_strOut[n], 1, 9) =
         Format08d(ParseInt(StemID(C12_Written[n].stem))) \o << " " >>

\* C12 witness: shard 0010 held PMID2, 2 and PMID10, met in that numeric order, and shard
\* 002 one file; with the ratio 1/2 the file of shard 002 was written, being the 4th file
\* of the walk though the 1st of its shard
C12_Witness ==
  /\ pps_pc = "returned"
  /\ iNumerator = 1
  /\ iDenominator = 2
  /\ Len(pps_seen) = 4
  /\ pps_seen[3].stem = << "P", "M", "I", "D", "1", "0" >>
  /\ pps_seen[3].dir = << "0", "0", "1", "0" >>
  /\ pps_seen[4].dir = << "0", "0", "2" >>
  /\ pps_seen[4].wrote
  /\ Len(pps_strOut) = 2

(***************************************************************************)
(* Properties of the start of the programs.                                 *)
(***************************************************************************)
\* the stopword file is missing or cannot be read
C14_BadStopWordsFile == sStopWordsFile.state \in { "missing", "noperm", "undecodable" }

\* no corpus line, identifier or shard file has been processed and no output line written
C14_NothingProcessed ==
  /\ visitedGwd = << >>
  /\ visitedBm = << >>
  /\ Docs = << >>
  /\ processed = << >>
  /\ strOut = << >>
  /\ SubDirs = << >>
  /\ pps_seen = << >>
  /\ iFilesInAll = 0
  /\ pps_strOut = << >>

\* the program that was started has ended with a nonzero exit status: exit(1), or an
\* uncaught exception
C14_Failed ==
  /\ pc \in { "idle", "exit1", "crash" }
  /\ sub_pc \in { "idle", "exit1" }
  /\ pps_pc \in { "idle", "exit1" }

\* the last thing written to sys.stderr is a report of a failure
C14_Reported ==
  \/ /\ cfg_stderr # << >>
     /\ cfg_stderr[Len(cfg_stderr)] \notin { "Reading", "Done reading" }
  \/ /\ pps_stderr # << >>
     /\ pps_stderr[Len(pps_stderr)].msg \in
          { "Directory does not appear to exist.", "Failed to open output file" }

\* C14: a configuration error ends the run with a nonzero exit status and a report on
\* stderr before anything is processed or written: a missing or unreadable stopword file
\* before get_words_and_documents opens a corpus file, a nonexistent archive root or an
\* output that cannot be opened before BuildSubset or build_subset reads a shard file;
\* where work has begun, the start met no configuration error.
C14_ConfigErrorsStopEarly ==
  /\ (pc # "idle" /\ C14_BadStopWordsFile) =>
       /\ pc \in { "main", "stopwords", "exit1", "crash" }
       /\ C14_NothingProcessed
       /\ pc \in { "exit1", "crash" } => C14_Reported
  /\ cfg_error # "none" =>
       /\ C14_Failed
       /\ C14_Reported
       /\ C14_NothingProcessed
  /\ ~C14_NothingProcessed =>
       /\ cfg_error = "none"
       /\ ~C14_BadStopWordsFile

\* C14 witness: the stopword file is missing, the corpus holds a file with lines, and the
\* program has ended with exit(1) and its report without having visited a line
C14_Witness ==
  /\ pc = "exit1"
  /\ sStopWordsFile.state = "missing"
  /\ cfg_error = "stopwords"
  /\ PathList # << >>
  /\ Len(PathList[1]) >= 1
  /\ cfg_stderr = << "Unable to open stop words file" >>
  /\ visitedGwd = << >>

(***************************************************************************)
(* Properties of the importer.                                              *)
(***************************************************************************)
\* the IDs on the lines of an index file
C9_IDs(lines) == { IndexLineID(lines[i]) : i \in DOMAIN lines }

\* one more than the maximum ID of the index file the run found, 1 when it found none or an empty one
C9_Expected ==
  IF indexAtStart.lines = << >> THEN 1
  ELSE (CHOOSE m \in C9_IDs(indexAtStart.lines) :
          \A x \in C9_IDs(indexAtStart.lines) : x <= m) + 1

\* the importer has read its parameters and started its loop
C9_Started == imp_pc \in { "loop", "done" }

C10_Incomplete(c) == c.sTitle = << >> \/ c.sAuthors = << >> \/ c.sText = << >>

\* C10: a call that reads a record with an empty field writes nothing to the index and
\* nothing to the output, reports once on stderr and returns its ID unchanged; the next
\* call is handed that ID, and if it reads a complete record it writes it under that ID.
C10_DroppedRecord ==
  \A k \in DOMAIN calls :
    C10_Incomplete(calls[k]) =>
      /\ calls[k].nIndex = 0
      /\ calls[k].nOut = 0
      /\ calls[k].nErr = 1
      /\ calls[k].returned = calls[k].iID
      /\ (k + 1 \in DOMAIN calls) =>
           /\ calls[k + 1].iID = calls[k].iID
           /\ ~C10_Incomplete(calls[k + 1]) =>
                /\ calls[k + 1].nIndex = 1
                /\ IndexLineID(strIndex[calls[k + 1].indexLen]) = calls[k].iID

\* C10 witness: after an index ending with ID 42, a record with blank authors was dropped
\* and the next, complete record was written under ID 43
C10_Witness ==
  \E k \in DOMAIN calls :
       /\ calls[k].sAuthors = << >>
       /\ k + 1 \in DOMAIN calls
       /\ ~C10_Incomplete(calls[k + 1])
       /\ calls[k + 1].returned = calls[k].iID + 1
       /\ calls[k].iID = 43

RECURSIVE C15_ValidRecords(_)
\* the complete records of an input, in order: blank lines are passed over, the next three
\* lines are title, authors and text, and a record with an empty field is not counted
C15_ValidRecords(lines) ==
  IF lines = << >> THEN << >>
  ELSE IF Strip(Head(lines)) = << >> THEN C15_ValidRecords(Tail(lines))
  ELSE LET field(n) == IF Len(lines) >= n THEN Strip(lines[n]) ELSE << >>
           rest == IF Len(lines) > 3 THEN SubSeq(lines, 4, Len(lines)) ELSE << >>
           rec == [ title |-> field(1), authors |-> field(2), text |-> field(3) ]
       IN  (IF rec.authors # << >> /\ rec.text # << >> THEN << rec >> ELSE << >>)
             \o C15_ValidRecords(rest)

\* the fields of an index line: ID, authors, title
C15_Fields(line) == Split(SubSeq(line, 1, Len(line) - 1), "\t")

\* C15: after a second run on the same input of N valid records and the same index file,
\* the index as the first run left it is unchanged, N entries follow it with the authors
\* and titles of the N records under the IDs that continue after the first run's last ID,
\* and the 2N entries of the two runs carry strictly increasing IDs.
C15_SecondRunDuplicates ==
  (imp_run = 2 /\ imp_pc = "done") =>
    LET recs == C15_ValidRecords(strIn)
        N == Len(recs)
        first == indexAtStart.lines
        L == Len(first)
    IN  /\ L >= N
        /\ Len(strIndex) = L + N
        /\ SubSeq(strIndex, 1, L) = first
        /\ \E x \in IndexUniverse : x.lines = SubSeq(first, 1, L - N)
        /\ (L = N) => Len(strIndex) = 2 * N
        /\ \A k \in 1..N :
             /\ C15_Fields(strIndex[L + k])[2] = recs[k].authors
             /\ C15_Fields(strIndex[L + k])[3] = recs[k].title
             /\ C15_Fields(first[L - N + k])[2] = recs[k].authors
             /\ C15_Fields(first[L - N + k])[3] = recs[k].title
             /\ IndexLineID(strIndex[L + k]) = IndexLineID(first[L]) + k
        /\ \A i, j \in (L - N + 1)..(L + N) :
             i < j => IndexLineID(strIndex[i]) < IndexLineID(strIndex[j])

\* C15 witness: the second run is over, each run wrote two records, after an index ending with 42
C15_Witness ==
  /\ imp_run = 2
  /\ imp_pc = "done"
  /\ Len(C15_ValidRecords(strIn)) = 2
  /\ Len(strIndex) = 6
  /\ IndexLineID(strIndex[6]) = 46

\* the ID at the start of a corpus line
C16_CorpusLineID(line) == ParseInt(Split(line, " ")[1])

\* the calls so far that wrote a record, in order
C16_Writers == SelectSeq(calls, LAMBDA c : c.nIndex = 1 \/ c.nOut = 1)

\* C16: in a run that started with ID s, the index records written so far, the corpus
\* lines written so far and (current ID - s) are the same number; the k-th index record
\* and the k-th corpus line carry ID s + k - 1 and were written by the same call from the
\* record it read.
C16_PairedOutputs ==
  C9_Started =>
    LET s == IF calls = << >> THEN iID ELSE calls[1].iID
        b == Len(indexAtStart.lines)
        n == Len(strIndex) - b
    IN  /\ n = Len(imp_strOut)
        /\ n = iID - s
        /\ n = Len(C16_Writers)
        /\ \A k \in 1..n :
             LET c == C16_Writers[k]
             IN  /\ IndexLineID(strIndex[b + k]) = s + k - 1
                 /\ C16_CorpusLineID(imp_strOut[k]) = s + k - 1
                 /\ c.nIndex = 1 /\ c.nOut = 1
                 /\ strIndex[b + k] = IndexLine(s + k - 1, c.sAuthors, c.sTitle)
                 /\ imp_strOut[k] = CorpusLine(s + k - 1, c.sText)

\* C16 witness: a run that started with ID 43 has written two records, the current ID being 45
C16_Witness ==
  /\ C9_Started
  /\ Len(calls) = 2
  /\ calls[1].iID = 43
  /\ Len(imp_strOut) = 2
  /\ Len(strIndex) = Len(indexAtStart.lines) + 2
  /\ iID = 45

(***************************************************************************)
(* Properties of the filters and of the counter of get_words_and_documents. *)
(***************************************************************************)
\* the letters of the model's alphabet
C25_IsLetter(c) == (Ord(c) >= Ord("a") /\ Ord(c) <= Ord("z")) \/ (Ord(c) >= Ord("A") /\ Ord(c) <= Ord("Z"))

\* after an optional leading '+' or '-', the next character is a digit, a period or a comma
C25_NumericPrefix(sToken) ==
  LET rest == IF sToken # << >> /\ sToken[1] \in { "+", "-" } THEN Tail(sToken) ELSE sToken
  IN  rest # << >> /\ rest[1] \in Digits \cup { ".", "," }

\* the visited tokens that reach the numeric test of line 261: not a stopword, not empty, no
\* '--' and no leading '-'
C25_ReachNumericTest ==
  { w \in VisitedTokens \ StopWords :
      w # << >> /\ ~Contains(w, << "-", "-" >>) /\ w[1] # "-" }

C22_ShortTokens(n) ==
  { w \in NewWordsOf(ValuesOf(LineAt(visitedGwd[n])), StopWords) : Len(w) < iMinWordLength }

\* C22: every candidate token shorter than iMinWordLength is dropped from the vocabulary and
\* no error is raised for it, the empty token of two adjacent spaces included.
\* The test `sToken[0] == '-'` of line 260 comes before the length test of line 262 and
\* raises IndexError on the empty token, so this fails.
C22_ShortTokensDropped ==
  /\ \A w \in Words : Len(w) >= iMinWordLength
  /\ \A n \in DOMAIN visitedGwd : C22_ShortTokens(n) # {} => err = "none"

RECURSIVE C23_LinesFrom(_)
\* every file of the list holds at least one line
C23_NonEmptyFiles == \A f \in DOMAIN PathList : Len(PathList[f]) > 0

\* the number of lines of the files f..Len(PathList)
C23_LinesFrom(f) == IF f > Len(PathList) THEN 0 ELSE Len(PathList[f]) + C23_LinesFrom(f + 1)

\* get_words_and_documents has returned after the inner cap test of line 251 fired: the
\* break leaves the index past the cap in iAbstractsPreviousFiles
C23_CapFired == pc = "returned" /\ iAbstractsPreviousFiles > iMaxAbstracts

\* the 1-based position of the file the inner cap test fired in: the break steps to the
\* next file, and the return leaves iFile there
C23_FiringFile == iFile - 1

C24_AtEmptyFile == pc \in { "gwd_line", "bm_line" } /\ Len(CurFile) = 0

\* C24: an empty file at any position of the list, the first included, adds no document and
\* no token, leaves the counter handed to the next file as it was, and the pass goes on
\* with the next file.
\* The end of the file runs `iAbstractsPreviousFiles = iAbstract`; no line of any file has
\* bound iAbstract when every file so far was empty, and the passes end with
\* UnboundLocalError, so this fails.
C24_EmptyFileSkipped ==
  [][ C24_AtEmptyFile =>
        /\ pc' = (IF pc = "gwd_line" THEN "gwd_file" ELSE "bm_file")
        /\ iFile' = iFile + 1
        /\ iAbstractsPreviousFiles' = iAbstractsPreviousFiles
        /\ err' = "none"
        /\ UNCHANGED << Docs, Words, matrixWordDoc, visitedGwd, visitedBm >> ]_vars

(***************************************************************************)
(* Properties of time_logger.                                               *)
(***************************************************************************)
\* the generator as next(tl) of the coming line leaves it, which is how send() finds it
C21_AtSend(d, e) == TlResume(tl, "None", d, e)

\* the vocabulary, the axis and the matrix of a result, or its exception
C21_Produced(r) == << r.err, r.Words, r.Docs, r.csc >>

\* C21: next(tl) and tl.send(...) called in turn never make the generator raise, and send()
\* always finds it at the receiving yield of line 190; a message is logged only when the
\* clock has advanced by more than `interval` since the message before it, or since
\* time_logger was called; a second run on the same input returns the vocabulary, the axis
\* and the matrix of the first, however the clock advanced in either.
C21_HeartbeatIsObservational ==
  /\ tl_err = "none"
  /\ err \notin { "TypeError", "StopIteration" }
  /\ tl_pos \in { "start", "sent" }
  /\ \A d, e \in tl_ticks :
       /\ C21_AtSend(d, e).pos = "recv"
       /\ C21_AtSend(d, e).err = "none"
  /\ tl_logged <=> tl_emitGap > interval
  /\ tl_emitGap \in { 0, interval + 1 }
  /\ (run = 2 /\ pc \in { "done", "crash" }) => C21_Produced(MainResult) = C21_Produced(firstRun)

\* C21 witness: the second run is over and its last line logged a message, more than
\* `interval` after the one before; the last line of the first run logged none; both runs
\* gave the same two documents and a matrix with a row
C21_Witness ==
  /\ run = 2
  /\ pc = "done"
  /\ tl_logged
  /\ tl_emitGap > interval
  /\ ~firstRun.logged
  /\ Len(Docs) >= 2
  /\ csc.shape[1] >= 1
  /\ C21_Produced(MainResult) = C21_Produced(firstRun)

=============================================================================
